---- MODULE Spec2Model ----
(***************************************************************************)
(* The aggregation and normalization engine of the mobility dashboard:     *)
(* calculateCountryAggregates, calculateRegionAsAggregate,                 *)
(* getNormalizedSeries, calculateStats, the two date-keyed merges          *)
(* (comparisonChartData, countryComparisonChartData) and sortedMatrix.     *)
(*                                                                         *)
(* Numbers are exact rationals [num, den] in lowest terms (the source uses *)
(* IEEE doubles).  A JavaScript Map is a sequence of [key, value] entries  *)
(* in insertion order.  new Date(ds).getTime() is the table DateTime, in   *)
(* days since the epoch; all date strings of the model are parseable       *)
(* (types.ts: "Date string YYYY-MM-DD"), two of them denote one instant.   *)
(***************************************************************************)
EXTENDS Integers, Sequences, FiniteSets, TLC

VARIABLES
    data,   \* the MovementRecord[] the Dashboard was mounted with
    op,     \* the operation evaluated last
    args,   \* its arguments
    ret,    \* what it returned
    src     \* the call whose result this one was given, or Null

vars == <<data, op, args, ret, src>>

-----------------------------------------------------------------------------
(* Bounds of the model *)

MaxRecords == 3

-----------------------------------------------------------------------------
(* JavaScript values *)

Null == [null |-> TRUE]

WHOLE_COUNTRY_OPTION == "(Whole Country Average)"

Abs(n) == IF n < 0 THEN -n ELSE n

RECURSIVE Gcd(_, _)
Gcd(a, b) == IF b = 0 THEN a ELSE Gcd(b, a % b)

\* The number n/d (d # 0) in lowest terms with a positive denominator.
Frac(n, d) ==
    LET g == Gcd(Abs(n), Abs(d))
        s == IF d < 0 THEN -1 ELSE 1
    IN  [num |-> (s * n) \div g, den |-> (s * d) \div g]

Num(n) == [num |-> n, den |-> 1]

NumAdd(a, b) == Frac(a.num * b.den + b.num * a.den, a.den * b.den)
NumDiv(a, n) == Frac(a.num, a.den * n)
NumMul(a, n) == Frac(a.num * n, a.den)
NumLess(a, b) == a.num * b.den < b.num * a.den
MathMax(a, b) == IF NumLess(a, b) THEN b ELSE a
MathMin(a, b) == IF NumLess(b, a) THEN b ELSE a

\* seq.forEach / seq.reduce: step applied to the elements of seq in order,
\* from init.  The sequence and each intermediate result are bound as values
\* (a set constructor's bound variable), so that each is evaluated once.
FoldValue(step(_, _), init, s) ==
    LET f[i \in 0..Len(s)] ==
            IF i = 0 THEN init
            ELSE CHOOSE next \in {step(acc, s[i]) : acc \in {f[i - 1]}} : TRUE
    IN  f[Len(s)]

FoldLeft(step(_, _), init, seq) ==
    CHOOSE result \in {FoldValue(step, init, s) : s \in {seq}} : TRUE

\* seq.reduce((a, b) => a + b, 0)
SumOf(seq) == FoldLeft(NumAdd, Num(0), seq)

\* Math.max(...seq) and Math.min(...seq) of a non-empty seq
MaxOf(seq) == FoldLeft(MathMax, seq[1], seq)
MinOf(seq) == FoldLeft(MathMin, seq[1], seq)

-----------------------------------------------------------------------------
(* Strings and dates *)

\* The strings of the model in the order of JavaScript's < on strings
\* (UTF-16 code units): "" < "(" < "A" < "B" < "C" < "X" < "Y" < "Z".
StringOrder == <<"", WHOLE_COUNTRY_OPTION, "A", "B", "C", "X", "Y", "Z">>
StrRank(s) == CHOOSE i \in 1..Len(StringOrder) : StringOrder[i] = s
StrLess(a, b) == StrRank(a) < StrRank(b)

\* new Date(ds).getTime(), in days: a date-only ISO string and the same day's
\* UTC midnight are one instant.
DateTime(ds) ==
    CASE ds = "2020-03-01" -> 18322
      [] ds = "2020-03-02" -> 18323
      [] ds = "2020-03-02T00:00:00Z" -> 18323

\* The comparator (a, b) => new Date(a.ds).getTime() - new Date(b.ds).getTime()
ByDate(a, b) == DateTime(a.ds) - DateTime(b.ds)

-----------------------------------------------------------------------------
(* Arrays and Maps *)

\* seq.map(f), the sequence bound as a value
Map(f(_), seq) ==
    CHOOSE result \in {[i \in 1..Len(s) |-> f(s[i])] : s \in {seq}} : TRUE

Reverse(seq) == [i \in 1..Len(seq) |-> seq[Len(seq) + 1 - i]]

\* Array.prototype.sort with comparator cmp: a stable sort (ES2019); x goes
\* after every element y with cmp(y, x) <= 0.
InsertSorted(cmp(_, _), sorted, x) ==
    LET after == {i \in 1..Len(sorted) : cmp(sorted[i], x) > 0}
        k == IF after = {} THEN Len(sorted) + 1
             ELSE CHOOSE i \in after : \A j \in after : i <= j
    IN  SubSeq(sorted, 1, k - 1) \o <<x>> \o SubSeq(sorted, k, Len(sorted))

Sort(cmp(_, _), seq) ==
    LET Insert(sorted, x) == InsertSorted(cmp, sorted, x)
    IN  FoldLeft(Insert, <<>>, seq)

\* seq.sort((a, b) => new Date(a.ds).getTime() - new Date(b.ds).getTime())
SortByDate(seq) == Sort(ByDate, seq)

MapHas(m, k) == \E i \in 1..Len(m) : m[i].key = k
MapGet(m, k) == m[CHOOSE i \in 1..Len(m) : m[i].key = k].value
\* Map.prototype.set: an existing key keeps its place, a new key goes last.
MapSet(m, k, v) ==
    IF MapHas(m, k)
    THEN [i \in 1..Len(m) |-> IF m[i].key = k THEN [key |-> k, value |-> v] ELSE m[i]]
    ELSE Append(m, [key |-> k, value |-> v])
EntryValue(e) == e.value
MapValues(m) == Map(EntryValue, m)

-----------------------------------------------------------------------------
(* dataService.getRegionsByCountry *)

ByString(a, b) == IF StrLess(a, b) THEN -1 ELSE IF StrLess(b, a) THEN 1 ELSE 0

\* Array.from(new Set(seq)): the distinct elements in first-occurrence order
Distinct(seq) ==
    LET Add(set, x) == IF \E j \in 1..Len(set) : set[j] = x THEN set ELSE Append(set, x)
    IN  FoldLeft(Add, <<>>, seq)

PolygonName(d) == d.polygon_name
Country(d) == d.country

(* dataService.getUniqueCountries *)
getUniqueCountries(records) == Sort(ByString, Distinct(Map(Country, records)))

getRegionsByCountry(records, country) ==
    Sort(ByString,
         Distinct(Map(PolygonName, SelectSeq(records, LAMBDA d : d.country = country))))

-----------------------------------------------------------------------------
(* dataService.parseMovementData *)

\* What tsvParse hands to the row function is a record of the cells of the
\* header's columns, each a string; d.col of a column the header lacks is
\* undefined.  d.col || '' of such a row:
CellOr(d, col) == IF col \in DOMAIN d THEN d[col] ELSE ""

\* NaN, the number parseFloat gives for a cell that is no number
NaN == [num |-> 0, den |-> 0]

\* parseFloat on the cells of the model
ParseFloat(cell) ==
    CASE cell = "-0.3" -> Frac(-3, 10)
      [] cell = "0.5" -> Frac(1, 2)
      [] OTHER -> NaN

\* d.col ? parseFloat(d.col) : 0
NumberOr(d, col) == IF CellOr(d, col) = "" THEN Num(0) ELSE ParseFloat(d[col])

\* The row function of tsvParse
ConvertRow(d) ==
    [ds |-> CellOr(d, "ds"),
     country |-> CellOr(d, "country"),
     polygon_source |-> CellOr(d, "polygon_source"),
     polygon_id |-> CellOr(d, "polygon_id"),
     polygon_name |-> CellOr(d, "polygon_name"),
     all_day_bing_tiles_visited_relative_change |->
         NumberOr(d, "all_day_bing_tiles_visited_relative_change"),
     all_day_ratio_single_tile_users |-> NumberOr(d, "all_day_ratio_single_tile_users"),
     baseline_name |-> CellOr(d, "baseline_name"),
     baseline_type |-> CellOr(d, "baseline_type")]

\* parseMovementData keeping the rows with a date, whatever their country.
parseMovementData_DateOnly(rows) ==
    SelectSeq(Map(ConvertRow, rows), LAMBDA p : p.ds # "")

\* parseMovementData on the rows tsvParse found in the text
parseMovementData(rows) ==
    SelectSeq(Map(ConvertRow, rows), LAMBDA p : p.ds # "" /\ p.country # "")

-----------------------------------------------------------------------------
(* calculateCountryAggregates *)

\* Trend accumulation of one row
AccumulateDate(dateMap, r) ==
    LET m == IF MapHas(dateMap, r.ds) THEN dateMap
             ELSE MapSet(dateMap, r.ds, [count |-> 0, mobSum |-> Num(0), staySum |-> Num(0)])
        dEntry == MapGet(m, r.ds)
    IN  MapSet(m, r.ds,
               [count |-> dEntry.count + 1,
                mobSum |-> NumAdd(dEntry.mobSum, r.all_day_bing_tiles_visited_relative_change),
                staySum |-> NumAdd(dEntry.staySum, r.all_day_ratio_single_tile_users)])

\* AccumulateRegion without the regionMap.has lookup: every row opens an entry.
AccumulateRegion_NoLookup(regionMap, r) ==
    Append(regionMap,
           [key |-> r.polygon_name,
            value |-> [name |-> r.polygon_name,
                       avgMobility |-> r.all_day_bing_tiles_visited_relative_change,
                       avgStay |-> r.all_day_ratio_single_tile_users,
                       maxStay |-> MathMax(Num(-1), r.all_day_ratio_single_tile_users),
                       minMobility |-> MathMin(Num(999), r.all_day_bing_tiles_visited_relative_change),
                       dataPoints |-> 1]])

\* Region accumulation of one row
AccumulateRegion(regionMap, r) ==
    LET m == IF MapHas(regionMap, r.polygon_name) THEN regionMap
             ELSE MapSet(regionMap, r.polygon_name,
                         [name |-> r.polygon_name, avgMobility |-> Num(0),
                          avgStay |-> Num(0), maxStay |-> Num(-1),
                          minMobility |-> Num(999), dataPoints |-> 0])
        rEntry == MapGet(m, r.polygon_name)
    IN  MapSet(m, r.polygon_name,
               [name |-> rEntry.name,
                avgMobility |-> NumAdd(rEntry.avgMobility, r.all_day_bing_tiles_visited_relative_change),
                avgStay |-> NumAdd(rEntry.avgStay, r.all_day_ratio_single_tile_users),
                maxStay |-> MathMax(rEntry.maxStay, r.all_day_ratio_single_tile_users),
                minMobility |-> MathMin(rEntry.minMobility, r.all_day_bing_tiles_visited_relative_change),
                dataPoints |-> rEntry.dataPoints + 1])

\* FinalizeTrendEntry with the sums undivided.
FinalizeTrendEntry_NoDivision(e) ==
    [ds |-> e.key, avgMobility |-> e.value.mobSum, avgStay |-> e.value.staySum]

FinalizeTrendEntry(e) ==
    [ds |-> e.key,
     avgMobility |-> NumDiv(e.value.mobSum, e.value.count),
     avgStay |-> NumDiv(e.value.staySum, e.value.count)]

\* FinalizeMatrixRow with the sums undivided.
FinalizeMatrixRow_NoDivision(r) == r

FinalizeMatrixRow(r) ==
    [r EXCEPT !.avgMobility = NumDiv(r.avgMobility, r.dataPoints),
              !.avgStay = NumDiv(r.avgStay, r.dataPoints)]

\* calculateCountryAggregates with the day's sums divided by the number of
\* regions of the country instead of the day's row count.
calculateCountryAggregates_DivideByRegions(records, country) ==
    IF country = "" THEN Null
    ELSE
    LET raw == SelectSeq(records, LAMBDA d : d.country = country)
        dateMap == FoldLeft(AccumulateDate, <<>>, raw)
        regionMap == FoldLeft(AccumulateRegion, <<>>, raw)
        PerRegion(e) ==
            [ds |-> e.key,
             avgMobility |-> NumDiv(e.value.mobSum, Len(regionMap)),
             avgStay |-> NumDiv(e.value.staySum, Len(regionMap))]
    IN  IF Len(raw) = 0 THEN Null
        ELSE [trend |-> SortByDate(Map(PerRegion, dateMap)),
              matrix |-> Map(FinalizeMatrixRow, MapValues(regionMap)),
              totalRegions |-> Len(regionMap)]

\* calculateCountryAggregates without the raw.length === 0 return.
calculateCountryAggregates_NoEmptyCheck(records, country) ==
    IF country = "" THEN Null
    ELSE
    LET raw == SelectSeq(records, LAMBDA d : d.country = country)
        dateMap == FoldLeft(AccumulateDate, <<>>, raw)
        regionMap == FoldLeft(AccumulateRegion, <<>>, raw)
    IN  [trend |-> SortByDate(Map(FinalizeTrendEntry, dateMap)),
         matrix |-> Map(FinalizeMatrixRow, MapValues(regionMap)),
         totalRegions |-> Len(regionMap)]

\* calculateCountryAggregates with the matrix in the order of the region names.
calculateCountryAggregates_MatrixByName(records, country) ==
    IF country = "" THEN Null
    ELSE
    LET raw == SelectSeq(records, LAMBDA d : d.country = country)
        dateMap == FoldLeft(AccumulateDate, <<>>, raw)
        regionMap == FoldLeft(AccumulateRegion, <<>>, raw)
        ByName(a, b) == ByString(a.name, b.name)
    IN  IF Len(raw) = 0 THEN Null
        ELSE [trend |-> SortByDate(Map(FinalizeTrendEntry, dateMap)),
              matrix |-> Sort(ByName, Map(FinalizeMatrixRow, MapValues(regionMap))),
              totalRegions |-> Len(regionMap)]

\* calculateCountryAggregates with the trend left in the order of the Map.
calculateCountryAggregates_TrendUnsorted(records, country) ==
    IF country = "" THEN Null
    ELSE
    LET raw == SelectSeq(records, LAMBDA d : d.country = country)
        dateMap == FoldLeft(AccumulateDate, <<>>, raw)
        regionMap == FoldLeft(AccumulateRegion, <<>>, raw)
    IN  IF Len(raw) = 0 THEN Null
        ELSE [trend |-> Map(FinalizeTrendEntry, dateMap),
              matrix |-> Map(FinalizeMatrixRow, MapValues(regionMap)),
              totalRegions |-> Len(regionMap)]

calculateCountryAggregates(records, country) ==
    IF country = "" THEN Null
    ELSE
    LET raw == SelectSeq(records, LAMBDA d : d.country = country)
        dateMap == FoldLeft(AccumulateDate, <<>>, raw)
        regionMap == FoldLeft(AccumulateRegion, <<>>, raw)
    IN  IF Len(raw) = 0 THEN Null
        ELSE [trend |-> SortByDate(Map(FinalizeTrendEntry, dateMap)),
              matrix |-> Map(FinalizeMatrixRow, MapValues(regionMap)),
              totalRegions |-> Len(regionMap)]

------------------------------------------------------------------------

-----------------------------------------------------------------------------
(* calculateRegionAsAggregate *)

TrendPoint(d) == [ds |-> d.ds, avgMobility |-> d.mobility, avgStay |-> d.stay]
Mobility(d) == d.mobility
Stay(d) == d.stay

\* calculateRegionAsAggregate with the row's minimum taken over the stay
\* values.
calculateRegionAsAggregate_MinOfStay(dataset, regionName) ==
    IF Len(dataset) = 0 THEN Null
    ELSE
    LET mobilityVals == Map(Mobility, dataset)
        stayVals == Map(Stay, dataset)
    IN  [trend |-> Map(TrendPoint, dataset),
         matrix |-> <<[name |-> regionName,
                       avgMobility |-> NumDiv(SumOf(mobilityVals), Len(mobilityVals)),
                       avgStay |-> NumDiv(SumOf(stayVals), Len(stayVals)),
                       maxStay |-> MaxOf(stayVals),
                       minMobility |-> MinOf(stayVals),
                       dataPoints |-> Len(dataset)]>>,
         totalRegions |-> 1]

calculateRegionAsAggregate(dataset, regionName) ==
    IF Len(dataset) = 0 THEN Null
    ELSE
    LET mobilityVals == Map(Mobility, dataset)
        stayVals == Map(Stay, dataset)
    IN  [trend |-> Map(TrendPoint, dataset),
         matrix |-> <<[name |-> regionName,
                       avgMobility |-> NumDiv(SumOf(mobilityVals), Len(mobilityVals)),
                       avgStay |-> NumDiv(SumOf(stayVals), Len(stayVals)),
                       maxStay |-> MaxOf(stayVals),
                       minMobility |-> MinOf(mobilityVals),
                       dataPoints |-> Len(dataset)]>>,
         totalRegions |-> 1]

-----------------------------------------------------------------------------
(* Dashboard: getNormalizedSeries and calculateStats *)

\* AveragePoint with the two averages in each other's place.
AveragePoint_Swapped(t) ==
    [ds |-> t.ds, mobility |-> t.avgStay, stay |-> t.avgMobility, baseline_type |-> "AVERAGE"]

AveragePoint(t) ==
    [ds |-> t.ds, mobility |-> t.avgMobility, stay |-> t.avgStay, baseline_type |-> "AVERAGE"]

RegionPoint(d) ==
    [ds |-> d.ds,
     mobility |-> d.all_day_bing_tiles_visited_relative_change,
     stay |-> d.all_day_ratio_single_tile_users,
     baseline_type |-> d.baseline_type]

\* getNormalizedSeries keeping, of the rows of the region, the first of
\* each date string only.
getNormalizedSeries_OnePerDate(records, c, r) ==
    IF c = "" \/ r = "" THEN <<>>
    ELSE IF r = WHOLE_COUNTRY_OPTION
    THEN LET agg == calculateCountryAggregates(records, c)
         IN  IF agg = Null THEN <<>> ELSE Map(AveragePoint, agg.trend)
    ELSE LET filtered == SelectSeq(records, LAMBDA d : d.country = c /\ d.polygon_name = r)
             First(i) == \A j \in 1..(i - 1) : filtered[j].ds # filtered[i].ds
             kept == {i \in 1..Len(filtered) : First(i)}
             Keep(acc, i) == IF i \in kept THEN Append(acc, filtered[i]) ELSE acc
         IN  Map(RegionPoint, SortByDate(FoldLeft(Keep, <<>>, [i \in 1..Len(filtered) |-> i])))

\* getNormalizedSeries without the sort of the region's rows.
getNormalizedSeries_Unsorted(records, c, r) ==
    IF c = "" \/ r = "" THEN <<>>
    ELSE IF r = WHOLE_COUNTRY_OPTION
    THEN LET agg == calculateCountryAggregates(records, c)
         IN  IF agg = Null THEN <<>> ELSE Map(AveragePoint, agg.trend)
    ELSE LET filtered == SelectSeq(records, LAMBDA d : d.country = c /\ d.polygon_name = r)
         IN  Map(RegionPoint, filtered)

\* getNormalizedSeries with the region filter forgetting the country.
getNormalizedSeries_AnyCountry(records, c, r) ==
    IF c = "" \/ r = "" THEN <<>>
    ELSE IF r = WHOLE_COUNTRY_OPTION
    THEN LET agg == calculateCountryAggregates(records, c)
         IN  IF agg = Null THEN <<>> ELSE Map(AveragePoint, agg.trend)
    ELSE LET filtered == SelectSeq(records, LAMBDA d : d.polygon_name = r)
         IN  Map(RegionPoint, SortByDate(filtered))

getNormalizedSeries(records, c, r) ==
    IF c = "" \/ r = "" THEN <<>>
    ELSE IF r = WHOLE_COUNTRY_OPTION
    THEN LET agg == calculateCountryAggregates(records, c)
         IN  IF agg = Null THEN <<>> ELSE Map(AveragePoint, agg.trend)
    ELSE LET filtered == SelectSeq(records, LAMBDA d : d.country = c /\ d.polygon_name = r)
         IN  Map(RegionPoint, SortByDate(filtered))

\* Number.prototype.toFixed(1): the decimal string with one fraction digit
\* nearest to x (of two equally near, the one larger in magnitude), kept as
\* its sign and its count of tenths; a negative x keeps its "-" when it
\* rounds to 0.0.
ToFixed1(x) ==
    LET n == Abs(x.num) * 10
        q == n \div x.den
        t == IF 2 * (n - q * x.den) >= x.den THEN q + 1 ELSE q
    IN  [negative |-> x.num < 0, tenths |-> t]

calculateStats(dataset) ==
    IF Len(dataset) = 0 THEN Null
    ELSE
    LET mobilityChanges == Map(Mobility, dataset)
        stayHomeRatios == Map(Stay, dataset)
        avgMobility == NumDiv(SumOf(mobilityChanges), Len(mobilityChanges))
        maxStayHome == MaxOf(stayHomeRatios)
    IN  [avgMobility |-> ToFixed1(NumMul(avgMobility, 100)),
         maxStayHome |-> ToFixed1(NumMul(maxStayHome, 100)),
         count |-> Len(dataset),
         start |-> dataset[1].ds,
         end |-> dataset[Len(dataset)].ds]

-----------------------------------------------------------------------------
(* Dashboard: the merges by date *)

\* selectedRegion === WHOLE_COUNTRY_OPTION ? `${selectedCountry} (Avg)` : selectedRegion
SeriesLabel(country, region) ==
    IF region = WHOLE_COUNTRY_OPTION THEN country \o " (Avg)" ELSE region

\* existing.secondary_mobility = ...; existing.secondary_stay = ...;
\* existing.secondary_label = ...
WithSecondary(existing, mobility, stay, label) ==
    [secondary_mobility |-> mobility, secondary_stay |-> stay, secondary_label |-> label]
        @@ existing

\* SetPrimaryPoint keeping the row a date already has.
SetPrimaryPoint_KeepFirst(dataMap, d, label) ==
    IF MapHas(dataMap, d.ds) THEN dataMap
    ELSE MapSet(dataMap, d.ds,
                [ds |-> d.ds, primary_mobility |-> d.mobility, primary_stay |-> d.stay,
                 primary_label |-> label])

\* primaryData.forEach(d => dataMap.set(d.ds, {...}))
SetPrimaryPoint(dataMap, d, label) ==
    MapSet(dataMap, d.ds,
           [ds |-> d.ds, primary_mobility |-> d.mobility, primary_stay |-> d.stay,
            primary_label |-> label])

\* SetSecondaryPoint joining only the dates the primary series has.
SetSecondaryPoint_InnerJoin(dataMap, d, label) ==
    IF MapHas(dataMap, d.ds)
    THEN MapSet(dataMap, d.ds, WithSecondary(MapGet(dataMap, d.ds), d.mobility, d.stay, label))
    ELSE dataMap

\* SetSecondaryPoint with the primary fields of a new row left out.
SetSecondaryPoint_OmitPrimary(dataMap, d, label) ==
    LET existing == IF MapHas(dataMap, d.ds) THEN MapGet(dataMap, d.ds)
                    ELSE [ds |-> d.ds]
    IN  MapSet(dataMap, d.ds, WithSecondary(existing, d.mobility, d.stay, label))

\* secondaryData.forEach(d => {...; dataMap.set(d.ds, existing)})
SetSecondaryPoint(dataMap, d, label) ==
    LET existing == IF MapHas(dataMap, d.ds) THEN MapGet(dataMap, d.ds)
                    ELSE [ds |-> d.ds, primary_mobility |-> Null, primary_stay |-> Null]
    IN  MapSet(dataMap, d.ds, WithSecondary(existing, d.mobility, d.stay, label))

\* comparisonChartData returning the Map's values as they stand, unsorted.
comparisonChartData_Unsorted(primaryData, secondaryData, isCompareMode, selectedRegion, selectedCountry, selectedRegion2, selectedCountry2) ==
    LET label1 == SeriesLabel(selectedCountry, selectedRegion)
        label2 == SeriesLabel(selectedCountry2, selectedRegion2)
        SetPrimary(m, d) == SetPrimaryPoint(m, d, label1)
        SetSecondary(m, d) == SetSecondaryPoint(m, d, label2)
        primaryMap == FoldLeft(SetPrimary, <<>>, primaryData)
        dataMap == IF isCompareMode /\ Len(secondaryData) > 0
                   THEN FoldLeft(SetSecondary, primaryMap, secondaryData)
                   ELSE primaryMap
    IN  MapValues(dataMap)

comparisonChartData(primaryData, secondaryData, isCompareMode, selectedRegion, selectedCountry, selectedRegion2, selectedCountry2) ==
    LET label1 == SeriesLabel(selectedCountry, selectedRegion)
        label2 == SeriesLabel(selectedCountry2, selectedRegion2)
        SetPrimary(m, d) == SetPrimaryPoint(m, d, label1)
        SetSecondary(m, d) == SetSecondaryPoint(m, d, label2)
        primaryMap == FoldLeft(SetPrimary, <<>>, primaryData)
        dataMap == IF isCompareMode /\ Len(secondaryData) > 0
                   THEN FoldLeft(SetSecondary, primaryMap, secondaryData)
                   ELSE primaryMap
    IN  SortByDate(MapValues(dataMap))

\* countryOverviewData1.trend.forEach(d => dataMap.set(d.ds, {...}))
SetPrimaryTrend(dataMap, d, label) ==
    MapSet(dataMap, d.ds,
           [ds |-> d.ds, primary_mobility |-> d.avgMobility, primary_stay |-> d.avgStay,
            primary_label |-> label])

\* countryOverviewData2.trend.forEach(d => {...; dataMap.set(d.ds, existing)})
SetSecondaryTrend(dataMap, d, primaryLabel, secondaryLabel) ==
    LET existing == IF MapHas(dataMap, d.ds) THEN MapGet(dataMap, d.ds)
                    ELSE [ds |-> d.ds, primary_mobility |-> Null, primary_stay |-> Null,
                          primary_label |-> primaryLabel]
    IN  MapSet(dataMap, d.ds, WithSecondary(existing, d.avgMobility, d.avgStay, secondaryLabel))

countryComparisonChartData(countryOverviewData1, countryOverviewData2, isCountryCompareMode, countryViewCountry, countryViewCountry2, countryCompareType, countryViewRegion) ==
    IF countryOverviewData1 = Null THEN <<>>
    ELSE
    LET t1 == countryOverviewData1.trend
        t2 == IF countryOverviewData2 = Null THEN <<>> ELSE countryOverviewData2.trend
        secondaryLabel == IF countryCompareType = "country"
                          THEN countryViewCountry2 ELSE countryViewRegion
        SetPrimary(m, d) == SetPrimaryTrend(m, d, countryViewCountry)
        SetSecondary(m, d) == SetSecondaryTrend(m, d, countryViewCountry, secondaryLabel)
        primaryMap == FoldLeft(SetPrimary, <<>>, t1)
        dataMap == IF isCountryCompareMode /\ countryOverviewData2 # Null
                   THEN FoldLeft(SetSecondary, primaryMap, t2)
                   ELSE primaryMap
    IN  SortByDate(MapValues(dataMap))

\* countryOverviewData2
countryOverviewData2(records, isCountryCompareMode, countryCompareType, countryViewCountry, countryViewCountry2, countryViewRegion) ==
    IF ~isCountryCompareMode THEN Null
    ELSE IF countryCompareType = "country"
    THEN calculateCountryAggregates(records, countryViewCountry2)
    ELSE calculateRegionAsAggregate(
             getNormalizedSeries(records, countryViewCountry, countryViewRegion),
             countryViewRegion)

-----------------------------------------------------------------------------
(* Dashboard: sortedMatrix and handleSort *)

\* a[key] < b[key]: strings for name, numbers for the other columns
KeyLess(key, a, b) ==
    CASE key = "name" -> StrLess(a.name, b.name)
      [] key = "dataPoints" -> a.dataPoints < b.dataPoints
      [] OTHER -> NumLess(a[key], b[key])

\* SortComparator without the direction: always the ascending order.
SortComparator_IgnoresDirection(sortConfig, a, b) ==
    IF KeyLess(sortConfig.key, a, b) THEN -1
    ELSE IF KeyLess(sortConfig.key, b, a) THEN 1
    ELSE 0

SortComparator(sortConfig, a, b) ==
    IF KeyLess(sortConfig.key, a, b)
    THEN (IF sortConfig.direction = "asc" THEN -1 ELSE 1)
    ELSE IF KeyLess(sortConfig.key, b, a)
    THEN (IF sortConfig.direction = "asc" THEN 1 ELSE -1)
    ELSE 0

\* sortedMatrix with 'desc' as the ascending order reversed.
sortedMatrix_DescByReversal(countryOverviewData1, overviewData2, sortConfig, matrixTab, isCountryCompareMode) ==
    LET activeData == IF matrixTab = "secondary" /\ isCountryCompareMode
                         /\ overviewData2 # Null
                      THEN overviewData2 ELSE countryOverviewData1
        cmp(a, b) == SortComparator([sortConfig EXCEPT !.direction = "asc"], a, b)
    IN  IF activeData = Null THEN <<>>
        ELSE IF sortConfig = Null THEN activeData.matrix
        ELSE IF sortConfig.direction = "asc" THEN Sort(cmp, activeData.matrix)
        ELSE Reverse(Sort(cmp, activeData.matrix))

sortedMatrix(countryOverviewData1, overviewData2, sortConfig, matrixTab, isCountryCompareMode) ==
    LET activeData == IF matrixTab = "secondary" /\ isCountryCompareMode
                         /\ overviewData2 # Null
                      THEN overviewData2 ELSE countryOverviewData1
        cmp(a, b) == SortComparator(sortConfig, a, b)
    IN  IF activeData = Null THEN <<>>
        ELSE IF sortConfig # Null THEN Sort(cmp, activeData.matrix)
        ELSE activeData.matrix

\* handleSort turning the direction whatever the column clicked.
handleSort_AnyColumnToggles(sortConfig, key) ==
    [key |-> key,
     direction |-> IF sortConfig # Null /\ sortConfig.direction = "asc"
                   THEN "desc" ELSE "asc"]

handleSort(sortConfig, key) ==
    [key |-> key,
     direction |-> IF sortConfig # Null /\ sortConfig.key = key
                      /\ sortConfig.direction = "asc"
                   THEN "desc" ELSE "asc"]

-----------------------------------------------------------------------------
(* The record collections and arguments of the model *)

Dates == {"2020-03-01", "2020-03-02", "2020-03-02T00:00:00Z"}
Countries == {"X", "Y"}
Regions == {"A", "B"}
\* (mobility change, stay-home ratio) of a row
Measurements == {<<Frac(-3, 10), Frac(1, 2)>>, <<Frac(1, 10), Frac(1, 4)>>}

RecordsOf(D, C, P, M) ==
    {[ds |-> d, country |-> c, polygon_name |-> p,
      all_day_bing_tiles_visited_relative_change |-> m[1],
      all_day_ratio_single_tile_users |-> m[2],
      baseline_type |-> "DAY_OF_WEEK"] : d \in D, c \in C, p \in P, m \in M}

SeqsUpTo(S, n) == UNION {[1..k -> S] : k \in 0..n}

\* Country X reports on every date, country Y on one day only; on one day
\* region B of X has a row whose tile visits rose a thousandfold.
MovementRecord ==
    RecordsOf(Dates, {"X"}, Regions, Measurements)
        \cup RecordsOf({"2020-03-02"}, {"Y"}, Regions, Measurements)
        \cup RecordsOf({"2020-03-01"}, {"X"}, {"B"}, {<<Frac(1000, 1), Frac(1, 2)>>})

CountryArgs == Countries \cup {"", "Z"}

Idle == op = "idle"

Return ==
    /\ ~Idle
    /\ op' = "idle"
    /\ args' = <<>>
    /\ ret' = Null
    /\ src' = Null
    /\ UNCHANGED data

-----------------------------------------------------------------------------
(* The country aggregator on a record collection *)

Init ==
    /\ data \in SeqsUpTo(MovementRecord, MaxRecords)
    /\ op = "idle"
    /\ args = <<>>
    /\ ret = Null
    /\ src = Null

CallCalculateCountryAggregates ==
    \E c \in CountryArgs :
        /\ Idle
        /\ op' = "calculateCountryAggregates"
        /\ args' = <<c>>
        /\ ret' = calculateCountryAggregates(data, c)
        /\ src' = Null
        /\ UNCHANGED data

Next ==
    \/ CallCalculateCountryAggregates
    \/ Return

Spec == Init /\ [][Next]_vars

-----------------------------------------------------------------------------
(* The series normalizer and what is computed from a series *)

\* Country X has a region without a name (the parser's default for a missing
\* polygon_name), a region A and, on one day, a region whose polygon_name is
\* the text of WHOLE_COUNTRY_OPTION; country Y has a region A too.
\* The rows of the first day are against the DAY_OF_WEEK baseline, the later
\* ones against another.
SeriesRecord ==
    {[d EXCEPT !.baseline_type = IF d.ds = "2020-03-01" THEN "DAY_OF_WEEK" ELSE "WEEKLY"] :
        d \in RecordsOf(Dates, {"X"}, {"", "A"}, Measurements)
                \cup RecordsOf({"2020-03-02"}, {"Y"}, {"A"}, Measurements)
                \cup RecordsOf({"2020-03-01"}, {"X"}, {WHOLE_COUNTRY_OPTION},
                                {<<Frac(1, 5), Frac(2, 5)>>})}

SeriesCountryArgs == {"", "X", "Y"}
SeriesRegionArgs == {"", "A", WHOLE_COUNTRY_OPTION}

InitSeries ==
    /\ data \in SeqsUpTo(SeriesRecord, MaxRecords)
    /\ op = "idle"
    /\ args = <<>>
    /\ ret = Null
    /\ src = Null

CallGetNormalizedSeries ==
    \E c \in SeriesCountryArgs, r \in SeriesRegionArgs :
        /\ Idle
        /\ op' = "getNormalizedSeries"
        /\ args' = <<c, r>>
        /\ ret' = getNormalizedSeries(data, c, r)
        /\ src' = Null
        /\ UNCHANGED data

\* calculateStats(primaryData)
CallCalculateStats ==
    /\ op = "getNormalizedSeries"
    /\ op' = "calculateStats"
    /\ args' = <<ret>>
    /\ ret' = calculateStats(ret)
    /\ src' = [op |-> op, args |-> args]
    /\ UNCHANGED data

\* calculateRegionAsAggregate(regionSeries, name), the name being the
\* region or the country the series was asked for
CallCalculateRegionAsAggregate ==
    /\ op = "getNormalizedSeries"
    /\ \E name \in {args[1], args[2]} :
           /\ op' = "calculateRegionAsAggregate"
           /\ args' = <<ret, name>>
           /\ ret' = calculateRegionAsAggregate(ret, name)
           /\ src' = [op |-> op, args |-> args]
           /\ UNCHANGED data

NextSeries ==
    \/ CallGetNormalizedSeries
    \/ CallCalculateStats
    \/ CallCalculateRegionAsAggregate
    \/ Return

SpecSeries == InitSeries /\ [][NextSeries]_vars

-----------------------------------------------------------------------------
(* The country aggregator on collections whose orders are compared *)

\* Country X has region A on every date string, twice on the first date, and
\* region B on two dates; country Y has one record.
OrderRecord ==
    RecordsOf(Dates, {"X"}, {"A"}, {<<Frac(-3, 10), Frac(1, 2)>>})
        \cup RecordsOf({"2020-03-01"}, {"X"}, {"A"}, {<<Frac(1, 10), Frac(1, 4)>>})
        \cup RecordsOf({"2020-03-01"}, {"X"}, {"B"}, {<<Frac(1, 10), Frac(1, 4)>>})
        \cup RecordsOf({"2020-03-02"}, {"X"}, {"B"}, {<<Frac(-3, 10), Frac(1, 2)>>})
        \cup RecordsOf({"2020-03-02"}, {"Y"}, {"A"}, {<<Frac(-3, 10), Frac(1, 2)>>})

InitOrder ==
    /\ data \in SeqsUpTo(OrderRecord, MaxRecords)
    /\ op = "idle"
    /\ args = <<>>
    /\ ret = Null
    /\ src = Null

SpecOrder == InitOrder /\ [][Next]_vars

-----------------------------------------------------------------------------
(* The two merges, on the series and aggregates the selectors choose *)

\* Country X has the regions A, with either measurement, and B, with one;
\* country Y has one kind of row.
MergeRecord ==
    RecordsOf(Dates, {"X"}, {"A"}, Measurements)
        \cup RecordsOf(Dates, {"X"}, {"B"}, {<<Frac(1, 5), Frac(2, 5)>>})
        \cup RecordsOf({"2020-03-01"}, {"Y"}, {"A"}, {<<Frac(0, 1), Frac(3, 4)>>})

InitMerge ==
    /\ data \in SeqsUpTo(MergeRecord, MaxRecords)
    /\ op = "idle"
    /\ args = <<>>
    /\ ret = Null
    /\ src = Null

\* The options of a country select: the countries of the data; the state
\* holds countries[0] || '' before any selection.
CountryOptions ==
    IF Len(getUniqueCountries(data)) = 0 THEN {""}
    ELSE {getUniqueCountries(data)[i] : i \in 1..Len(getUniqueCountries(data))}

FirstCountry == IF Len(getUniqueCountries(data)) = 0 THEN "" ELSE getUniqueCountries(data)[1]

\* The values a primary region selector holds: the sentinel or a region name,
\* of the selected country or left over from another country.
RegionSelections == Regions \cup {WHOLE_COUNTRY_OPTION}

\* The comparison's selectors: as mounted ('' for the region) while the
\* comparison is off, any selection once it is on.
SecondarySelections(isCompareMode) ==
    IF isCompareMode THEN CountryOptions \X (RegionSelections \cup {""})
    ELSE {<<FirstCountry, "">>}

\* A render of primaryData, secondaryData and comparisonChartData
RenderComparisonChartData ==
    /\ Idle
    /\ \E selectedCountry \in CountryOptions, selectedRegion \in RegionSelections,
          isCompareMode \in BOOLEAN :
         \E second \in SecondarySelections(isCompareMode) :
           \E primaryData \in {getNormalizedSeries(data, selectedCountry, selectedRegion)},
              secondaryData \in {IF isCompareMode
                                 THEN getNormalizedSeries(data, second[1], second[2])
                                 ELSE <<>>} :
               /\ op' = "comparisonChartData"
               /\ args' = [primary |-> primaryData, secondary |-> secondaryData,
                           compare |-> isCompareMode,
                           selectors |-> <<selectedCountry, selectedRegion, second[1], second[2]>>]
               /\ ret' = comparisonChartData(primaryData, secondaryData, isCompareMode,
                                             selectedRegion, selectedCountry, second[2], second[1])
               /\ src' = Null
               /\ UNCHANGED data

\* The country overview's comparison selectors: the compare type with the
\* second country or the region of the first; as mounted while it is off.
OverviewSelections(isCountryCompareMode) ==
    IF isCountryCompareMode
    THEN {<<"country", c, "">> : c \in CountryOptions}
             \cup {<<"region", FirstCountry, r>> : r \in Regions \cup {""}}
    ELSE {<<"country", FirstCountry, "">>}

TrendOf(agg) == IF agg = Null THEN <<>> ELSE agg.trend

\* A render of countryOverviewData1, countryOverviewData2 and
\* countryComparisonChartData
RenderCountryComparisonChartData ==
    /\ Idle
    /\ \E countryViewCountry \in CountryOptions, isCountryCompareMode \in BOOLEAN :
         \E second \in OverviewSelections(isCountryCompareMode) :
           \E countryOverviewData1 \in {calculateCountryAggregates(data, countryViewCountry)},
              overviewData2 \in {countryOverviewData2(data, isCountryCompareMode, second[1],
                                                      countryViewCountry, second[2], second[3])} :
               /\ op' = "countryComparisonChartData"
               /\ args' = [primary |-> TrendOf(countryOverviewData1),
                           secondary |-> TrendOf(overviewData2),
                           compare |-> isCountryCompareMode,
                           selectors |-> <<countryViewCountry, second[1], second[2], second[3]>>]
               /\ ret' = countryComparisonChartData(countryOverviewData1, overviewData2,
                                                    isCountryCompareMode, countryViewCountry,
                                                    second[2], second[1], second[3])
               /\ src' = Null
               /\ UNCHANGED data

NextMerge ==
    \/ RenderComparisonChartData
    \/ RenderCountryComparisonChartData
    \/ Return

SpecMerge == InitMerge /\ [][NextMerge]_vars

-----------------------------------------------------------------------------
(* The matrix sorter, under the header clicks *)

\* One country on one date: region A with any of three measurements, region
\* B with two of them, region C with one.
SortRecord ==
    RecordsOf({"2020-03-01"}, {"X"}, {"A"}, Measurements \cup {<<Frac(1, 5), Frac(2, 5)>>})
        \cup RecordsOf({"2020-03-01"}, {"X"}, {"B"}, Measurements)
        \cup RecordsOf({"2020-03-01"}, {"X"}, {"C"}, {<<Frac(1, 5), Frac(2, 5)>>})

InitSort ==
    /\ data \in SeqsUpTo(SortRecord, MaxRecords)
    /\ op = "idle"
    /\ args = <<>>
    /\ ret = Null
    /\ src = Null

\* The columns whose header calls handleSort
SortKeys == {"name", "avgMobility", "minMobility", "avgStay", "maxStay"}

\* useState({ key: 'avgMobility', direction: 'asc' })
InitialSortConfig == [key |-> "avgMobility", direction |-> "asc"]

\* The region the auto-select effect puts in countryViewRegion
FirstRegion ==
    IF Len(getRegionsByCountry(data, FirstCountry)) = 0 THEN ""
    ELSE getRegionsByCountry(data, FirstCountry)[1]

\* A render of sortedMatrix with the sort configuration as mounted; the
\* comparison, when on, is with the auto-selected region of the country.
RenderSortedMatrix ==
    /\ Idle
    /\ \E matrixTab \in {"primary", "secondary"}, isCountryCompareMode \in BOOLEAN :
         \E countryOverviewData1 \in {calculateCountryAggregates(data, FirstCountry)},
            overviewData2 \in {countryOverviewData2(data, isCountryCompareMode, "region",
                                                    FirstCountry, FirstCountry, FirstRegion)} :
             /\ op' = "sortedMatrix"
             /\ args' = [countryOverviewData1 |-> countryOverviewData1,
                         countryOverviewData2 |-> overviewData2,
                         sortConfig |-> InitialSortConfig,
                         matrixTab |-> matrixTab,
                         isCountryCompareMode |-> isCountryCompareMode]
             /\ ret' = sortedMatrix(countryOverviewData1, overviewData2, InitialSortConfig,
                                    matrixTab, isCountryCompareMode)
             /\ src' = Null
             /\ UNCHANGED data

\* A click on a column header: handleSort(key), and the render that follows
ClickHeader ==
    /\ op = "sortedMatrix"
    /\ \E key \in SortKeys :
         \E sortConfig \in {handleSort(args.sortConfig, key)} :
             /\ op' = "sortedMatrix"
             /\ args' = [args EXCEPT !.sortConfig = sortConfig]
             /\ ret' = sortedMatrix(args.countryOverviewData1, args.countryOverviewData2,
                                    sortConfig, args.matrixTab, args.isCountryCompareMode)
             /\ src' = Null
             /\ UNCHANGED data

NextSort ==
    \/ RenderSortedMatrix
    \/ ClickHeader
    \/ Return

SpecSort == InitSort /\ [][NextSort]_vars

-----------------------------------------------------------------------------
(* Dashboard: the selectors, the memoised values and the effects *)

\* The selectors as useState initialises them when the Dashboard mounts
MountSelectors(records) ==
    LET countries == getUniqueCountries(records)
        first == IF Len(countries) = 0 THEN "" ELSE countries[1]
    IN  [viewMode |-> "country",
         selectedCountry |-> first,
         selectedRegion |-> WHOLE_COUNTRY_OPTION,
         isCompareMode |-> FALSE,
         selectedCountry2 |-> first,
         selectedRegion2 |-> "",
         countryViewCountry |-> first,
         isCountryCompareMode |-> FALSE,
         countryCompareType |-> "country",
         countryViewCountry2 |-> IF Len(countries) > 1 THEN countries[2] ELSE first,
         countryViewRegion |-> "",
         sortConfig |-> InitialSortConfig,
         matrixTab |-> "primary"]

\* The dependency arrays of the useMemo calls: the selectors each names
\* (data, which every array but the last three of them names too, is the
\* same array for as long as the Dashboard is mounted; the memoised values
\* an array names are the upstream memos of Render)
DepsPrimaryRegions == {"selectedCountry"}
DepsSecondaryRegions == {"selectedCountry2"}
DepsCountryViewAvailableRegions == {"countryViewCountry"}
DepsPrimaryData == {"selectedCountry", "selectedRegion"}
\* DepsSecondaryData without isCompareMode.
DepsSecondaryData_WithoutCompareMode == {"selectedCountry2", "selectedRegion2"}
DepsSecondaryData == {"isCompareMode", "selectedCountry2", "selectedRegion2"}
DepsComparisonChartData == {"isCompareMode", "selectedRegion", "selectedCountry", "selectedRegion2", "selectedCountry2"}
DepsStats2 == {"isCompareMode"}
DepsCountryOverviewData1 == {"countryViewCountry"}
DepsCountryOverviewData2 == {"countryViewCountry2", "countryViewRegion", "isCountryCompareMode", "countryCompareType", "countryViewCountry"}
DepsCountryComparisonChartData == {"isCountryCompareMode", "countryViewCountry", "countryViewCountry2", "countryCompareType", "countryViewRegion"}
DepsSortedMatrix == {"sortConfig", "matrixTab", "isCountryCompareMode"}

\* useMemo runs its function on the first render and on a render in which a
\* dependency is not the one of the render before (prev is Null on the first)
Stale(prev, cur, deps) == prev = Null \/ \E k \in deps : prev[k] # cur[k]

\* The data array after getNormalizedSeries(c, r): filter() puts the rows of
\* the region in an array of their own, and it is that array sort() reorders.
RecordsAfterGetNormalizedSeries(records, c, r) ==
    IF c = "" \/ r = "" \/ r = WHOLE_COUNTRY_OPTION THEN records
    ELSE LET heap == [data |-> records,
                      filtered |-> SelectSeq(records, LAMBDA d : d.country = c /\ d.polygon_name = r)]
             sorted == [heap EXCEPT !.filtered = SortByDate(@)]
         IN  sorted.data

\* MatrixAfterSortedMatrix with sort() on activeData.matrix itself.
MatrixAfterSortedMatrix_InPlace(matrix, sortConfig) ==
    LET Cmp(a, b) == SortComparator(sortConfig, a, b)
    IN  IF sortConfig = Null THEN matrix ELSE Sort(Cmp, matrix)

\* The matrix of the active aggregate after sortedMatrix: sortable is a copy,
\* [...activeData.matrix], and it is the copy sort() reorders.
MatrixAfterSortedMatrix(matrix, sortConfig) ==
    LET Cmp(a, b) == SortComparator(sortConfig, a, b)
        heap == [matrix |-> matrix, sortable |-> matrix]
        sorted == IF sortConfig = Null THEN heap
                  ELSE [heap EXCEPT !.sortable = Sort(Cmp, @)]
    IN  sorted.matrix

\* An aggregate after a render: as it was, its matrix as sortedMatrix left it
\* if sortedMatrix ran with it as activeData
AggregateAfterRender(agg, sorts, sortConfig) ==
    IF sorts /\ agg # Null
    THEN [agg EXCEPT !.matrix = MatrixAfterSortedMatrix(agg.matrix, sortConfig)]
    ELSE agg

\* The data array after a render: after the calls of getNormalizedSeries of
\* the memos that ran
RecordsAfterRender(prev, cur, records) ==
    LET d1 == IF Stale(prev, cur, DepsPrimaryData)
              THEN RecordsAfterGetNormalizedSeries(records, cur.selectedCountry, cur.selectedRegion)
              ELSE records
        d2 == IF Stale(prev, cur, DepsSecondaryData) /\ cur.isCompareMode
              THEN RecordsAfterGetNormalizedSeries(d1, cur.selectedCountry2, cur.selectedRegion2)
              ELSE d1
    IN  IF Stale(prev, cur, DepsCountryOverviewData2) /\ cur.isCountryCompareMode
           /\ cur.countryCompareType = "region"
        THEN RecordsAfterGetNormalizedSeries(d2, cur.countryViewCountry, cur.countryViewRegion)
        ELSE d2

\* The memos that read other memos, given the values p, s, o1, o2 of
\* primaryData, secondaryData, countryOverviewData1 and countryOverviewData2
\* in this render and whether any of them ran
RenderDownstream(prev, cur, cache, p, s, o1, o2, ranP, ranS, ranO) ==
    LET secondaryActive == cur.matrixTab = "secondary" /\ cur.isCountryCompareMode /\ o2 # Null
        ranSort == ranO \/ Stale(prev, cur, DepsSortedMatrix)
    IN  CHOOSE result \in
            {[comparisonChartData |-> c, stats |-> st, stats2 |-> st2,
              countryComparisonChartData |-> cc, sortedMatrix |-> sm,
              primaryData |-> p, secondaryData |-> s,
              countryOverviewData1 |-> AggregateAfterRender(o1, ranSort /\ ~secondaryActive, cur.sortConfig),
              countryOverviewData2 |-> AggregateAfterRender(o2, ranSort /\ secondaryActive, cur.sortConfig)] :
                c \in {IF ranP \/ ranS \/ Stale(prev, cur, DepsComparisonChartData)
                       THEN comparisonChartData(p, s, cur.isCompareMode, cur.selectedRegion, cur.selectedCountry, cur.selectedRegion2, cur.selectedCountry2)
                       ELSE cache.comparisonChartData},
                st \in {IF ranP THEN calculateStats(p) ELSE cache.stats},
                st2 \in {IF ranS \/ Stale(prev, cur, DepsStats2)
                         THEN (IF cur.isCompareMode THEN calculateStats(s) ELSE Null)
                         ELSE cache.stats2},
                cc \in {IF ranO \/ Stale(prev, cur, DepsCountryComparisonChartData)
                        THEN countryComparisonChartData(o1, o2, cur.isCountryCompareMode, cur.countryViewCountry, cur.countryViewCountry2, cur.countryCompareType, cur.countryViewRegion)
                        ELSE cache.countryComparisonChartData},
                sm \in {IF ranSort
                        THEN sortedMatrix(o1, o2, cur.sortConfig, cur.matrixTab, cur.isCountryCompareMode)
                        ELSE cache.sortedMatrix}} : TRUE

\* The option lists of the region selects
RenderRegionLists(prev, cur, cache, records) ==
    [primaryRegions |->
         IF Stale(prev, cur, DepsPrimaryRegions)
         THEN <<WHOLE_COUNTRY_OPTION>> \o getRegionsByCountry(records, cur.selectedCountry)
         ELSE cache.primaryRegions,
     secondaryRegions |->
         IF Stale(prev, cur, DepsSecondaryRegions)
         THEN <<WHOLE_COUNTRY_OPTION>> \o getRegionsByCountry(records, cur.selectedCountry2)
         ELSE cache.secondaryRegions,
     countryViewAvailableRegions |->
         IF Stale(prev, cur, DepsCountryViewAvailableRegions)
         THEN getRegionsByCountry(records, cur.countryViewCountry)
         ELSE cache.countryViewAvailableRegions]

\* One render of the Dashboard with the selectors cur, the render before
\* having had the selectors prev and left the memoised values cache: the
\* memoised values after it, and the data array after it
Render(prev, cur, cache, records) ==
    CHOOSE result \in
        {[data |-> RecordsAfterRender(prev, cur, records),
          cache |-> RenderRegionLists(prev, cur, cache, records)
                        @@ RenderDownstream(prev, cur, cache, p, s, o1, o2,
                               Stale(prev, cur, DepsPrimaryData),
                               Stale(prev, cur, DepsSecondaryData),
                               Stale(prev, cur, DepsCountryOverviewData1)
                                   \/ Stale(prev, cur, DepsCountryOverviewData2))] :
            p \in {IF Stale(prev, cur, DepsPrimaryData)
                   THEN getNormalizedSeries(records, cur.selectedCountry, cur.selectedRegion)
                   ELSE cache.primaryData},
            s \in {IF Stale(prev, cur, DepsSecondaryData)
                   THEN (IF cur.isCompareMode
                         THEN getNormalizedSeries(records, cur.selectedCountry2, cur.selectedRegion2)
                         ELSE <<>>)
                   ELSE cache.secondaryData},
            o1 \in {IF Stale(prev, cur, DepsCountryOverviewData1)
                    THEN calculateCountryAggregates(records, cur.countryViewCountry)
                    ELSE cache.countryOverviewData1},
            o2 \in {IF Stale(prev, cur, DepsCountryOverviewData2)
                    THEN countryOverviewData2(records, cur.isCountryCompareMode, cur.countryCompareType, cur.countryViewCountry, cur.countryViewCountry2, cur.countryViewRegion)
                    ELSE cache.countryOverviewData2}} : TRUE

\* Array.prototype.includes
Includes(seq, x) == \E i \in 1..Len(seq) : seq[i] = x

\* AfterEffects without the reset of the primary region.
AfterEffects_NoRegionReset(sel, cache) ==
    [sel EXCEPT
        !.selectedRegion2 =
            IF sel.isCompareMode /\ sel.selectedCountry2 # ""
               /\ ~Includes(cache.secondaryRegions, @)
            THEN cache.secondaryRegions[1] ELSE @,
        !.countryViewRegion =
            IF sel.countryCompareType = "region"
               /\ Len(cache.countryViewAvailableRegions) > 0
               /\ ~Includes(cache.countryViewAvailableRegions, @)
            THEN cache.countryViewAvailableRegions[1] ELSE @]

\* AfterEffects selecting a region of the overview only while none is selected.
AfterEffects_AutoSelectOnlyWhenEmpty(sel, cache) ==
    [sel EXCEPT
        !.selectedRegion =
            IF sel.selectedCountry # "" /\ ~Includes(cache.primaryRegions, @)
            THEN cache.primaryRegions[1] ELSE @,
        !.selectedRegion2 =
            IF sel.isCompareMode /\ sel.selectedCountry2 # ""
               /\ ~Includes(cache.secondaryRegions, @)
            THEN cache.secondaryRegions[1] ELSE @,
        !.countryViewRegion =
            IF sel.countryCompareType = "region"
               /\ Len(cache.countryViewAvailableRegions) > 0
               /\ @ = ""
            THEN cache.countryViewAvailableRegions[1] ELSE @]

\* The selectors after the three effects that follow a render
AfterEffects(sel, cache) ==
    [sel EXCEPT
        !.selectedRegion =
            IF sel.selectedCountry # "" /\ ~Includes(cache.primaryRegions, @)
            THEN cache.primaryRegions[1] ELSE @,
        !.selectedRegion2 =
            IF sel.isCompareMode /\ sel.selectedCountry2 # ""
               /\ ~Includes(cache.secondaryRegions, @)
            THEN cache.secondaryRegions[1] ELSE @,
        !.countryViewRegion =
            IF sel.countryCompareType = "region"
               /\ Len(cache.countryViewAvailableRegions) > 0
               /\ ~Includes(cache.countryViewAvailableRegions, @)
            THEN cache.countryViewAvailableRegions[1] ELSE @]

-----------------------------------------------------------------------------
(* A mounted Dashboard under its controls *)

\* Country X has the regions A, with a row on each of two days standing
\* later day first, and B; country Y has a region A.
DashboardRecord ==
    RecordsOf({"2020-03-02"}, {"X"}, {"A"}, {<<Frac(1, 10), Frac(1, 4)>>})
        \cup RecordsOf({"2020-03-01"}, {"X"}, {"A"}, {<<Frac(-3, 10), Frac(1, 2)>>})
        \cup RecordsOf({"2020-03-01"}, {"X"}, {"B"}, {<<Frac(-3, 10), Frac(1, 2)>>})
        \cup RecordsOf({"2020-03-01"}, {"Y"}, {"A"}, {<<Frac(1, 10), Frac(1, 4)>>})

\* The collections of these rows that hold each row once at most
DashboardData ==
    {q \in SeqsUpTo(DashboardRecord, MaxRecords) :
        \A i, j \in 1..Len(q) : i # j => q[i] # q[j]}

\* The Dashboard after its first render
InitDashboard ==
    /\ data \in DashboardData
    /\ op = "mount"
    /\ args = MountSelectors(data)
    /\ ret = Render(Null, MountSelectors(data), Null, data).cache
    /\ src = Null

\* A state setter was called with the selectors cur as result, and the
\* Dashboard rendered
Rendered(cur) ==
    \E after \in {Render(args, cur, ret, data)} :
        /\ op' = "render"
        /\ args' = cur
        /\ ret' = after.cache
        /\ data' = after.data
        /\ src' = Null

\* No effect of the last render has a state to set
Settled == AfterEffects(args, ret) = args

\* The effects of the last render set their states, and the Dashboard
\* renders; src keeps the selectors the effects found
RunEffects ==
    /\ ~Settled
    /\ \E after \in {Render(args, AfterEffects(args, ret), ret, data)} :
          /\ op' = "render"
          /\ args' = AfterEffects(args, ret)
          /\ ret' = after.cache
          /\ data' = after.data
          /\ src' = args

\* The selectors of the view on show are as mounted
ViewAsMounted ==
    LET mounted == MountSelectors(data)
        shown == IF args.viewMode = "region"
                 THEN {"selectedCountry", "selectedRegion", "isCompareMode", "selectedCountry2", "selectedRegion2"}
                 ELSE {"countryViewCountry", "isCountryCompareMode", "countryCompareType", "countryViewCountry2", "countryViewRegion", "sortConfig", "matrixTab"}
    IN  \A k \in shown : args[k] = mounted[k]

\* setViewMode; the sessions of the model leave a view with its selectors
\* as mounted
SetViewMode ==
    /\ Settled
    /\ ViewAsMounted
    /\ \E v \in {"country", "region"} : Rendered([args EXCEPT !.viewMode = v])

RegionView == Settled /\ args.viewMode = "region"
CountryView == Settled /\ args.viewMode = "country"

\* The elements of an option list
Options(seq) == {seq[i] : i \in 1..Len(seq)}

SetIsCompareMode ==
    /\ RegionView
    /\ Rendered([args EXCEPT !.isCompareMode = ~@])

SetSelectedCountry ==
    /\ RegionView
    /\ \E c \in Options(getUniqueCountries(data)) :
           Rendered([args EXCEPT !.selectedCountry = c])

SetSelectedRegion ==
    /\ RegionView
    /\ \E r \in Options(ret.primaryRegions) :
           Rendered([args EXCEPT !.selectedRegion = r])

SetSelectedCountry2 ==
    /\ RegionView
    /\ args.isCompareMode
    /\ \E c \in Options(getUniqueCountries(data)) :
           Rendered([args EXCEPT !.selectedCountry2 = c])

SetSelectedRegion2 ==
    /\ RegionView
    /\ args.isCompareMode
    /\ \E r \in Options(ret.secondaryRegions) :
           Rendered([args EXCEPT !.selectedRegion2 = r])

SetIsCountryCompareMode ==
    /\ CountryView
    /\ Rendered([args EXCEPT !.isCountryCompareMode = ~@])

SetCountryViewCountry ==
    /\ CountryView
    /\ \E c \in Options(getUniqueCountries(data)) :
           Rendered([args EXCEPT !.countryViewCountry = c])

SetCountryCompareType ==
    /\ CountryView
    /\ args.isCountryCompareMode
    /\ \E t \in {"country", "region"} :
           Rendered([args EXCEPT !.countryCompareType = t])

SetCountryViewCountry2 ==
    /\ CountryView
    /\ args.isCountryCompareMode
    /\ args.countryCompareType = "country"
    /\ \E c \in Options(getUniqueCountries(data)) :
           Rendered([args EXCEPT !.countryViewCountry2 = c])

SetCountryViewRegion ==
    /\ CountryView
    /\ args.isCountryCompareMode
    /\ args.countryCompareType = "region"
    /\ \E r \in Options(ret.countryViewAvailableRegions) :
           Rendered([args EXCEPT !.countryViewRegion = r])

SetMatrixTab ==
    /\ CountryView
    /\ ret.countryOverviewData1 # Null
    /\ args.isCountryCompareMode
    /\ \E t \in {"primary", "secondary"} :
           Rendered([args EXCEPT !.matrixTab = t])

HandleSort ==
    /\ CountryView
    /\ ret.countryOverviewData1 # Null
    /\ \E key \in SortKeys :
           Rendered([args EXCEPT !.sortConfig = handleSort(@, key)])

NextDashboard ==
    \/ RunEffects
    \/ SetViewMode
    \/ SetIsCompareMode
    \/ SetSelectedCountry
    \/ SetSelectedRegion
    \/ SetSelectedCountry2
    \/ SetSelectedRegion2
    \/ SetIsCountryCompareMode
    \/ SetCountryViewCountry
    \/ SetCountryCompareType
    \/ SetCountryViewCountry2
    \/ SetCountryViewRegion
    \/ SetMatrixTab
    \/ HandleSort

SpecDashboard == InitDashboard /\ [][NextDashboard]_vars

-----------------------------------------------------------------------------
(* App: loading a file and resetting *)

Columns ==
    {"ds", "country", "polygon_source", "polygon_id", "polygon_name",
     "all_day_bing_tiles_visited_relative_change", "all_day_ratio_single_tile_users",
     "baseline_name", "baseline_type"}

\* The headers of the files of the model: complete, without the country
\* column, without the mobility column.
Headers ==
    {Columns, Columns \ {"country"},
     Columns \ {"all_day_bing_tiles_visited_relative_change"}}

\* The lines of the files: the date, the country and the mobility cell vary
\* and may be empty, the mobility cell may be no number.
Lines ==
    {[ds |-> d, country |-> c, polygon_source |-> "FB", polygon_id |-> "1",
      polygon_name |-> "A", all_day_bing_tiles_visited_relative_change |-> m,
      all_day_ratio_single_tile_users |-> "0.5", baseline_name |-> "full_february",
      baseline_type |-> "DAY_OF_WEEK"] :
        d \in {"", "2020-03-01", "2020-03-02"}, c \in {"", "X"}, m \in {"", "-0.3", "n/a"}}

\* A line as tsvParse gives it under a header
Under(header, line) == [col \in header |-> line[col]]

\* useState<MovementRecord[] | null>(null): the FileUpload is shown
InitParse ==
    /\ data = Null
    /\ op = "idle"
    /\ args = <<>>
    /\ ret = Null
    /\ src = Null

\* handleDataLoaded(content) through its timeout: the text is parsed and
\* the records are set as data
HandleDataLoaded ==
    /\ Idle
    /\ \E header \in Headers, lines \in SeqsUpTo(Lines, MaxRecords) :
         \E rows \in {[i \in 1..Len(lines) |-> Under(header, lines[i])]} :
         \E parsedData \in {parseMovementData(rows)} :
             /\ data' = parsedData
             /\ op' = "parseMovementData"
             /\ args' = <<rows>>
             /\ ret' = parsedData
             /\ src' = Null

\* handleReset: setData(null)
HandleReset ==
    /\ op = "parseMovementData"
    /\ data' = Null
    /\ op' = "idle"
    /\ args' = <<>>
    /\ ret' = Null
    /\ src' = Null

NextParse ==
    \/ HandleDataLoaded
    \/ HandleReset

SpecParse == InitParse /\ [][NextParse]_vars

-----------------------------------------------------------------------------
(* App and FileUpload: the file readers and the deferred parses *)

\* The loads that may be under way together, files being read and parses
\* deferred, in the sessions of the model
MaxLoads == 2

\* The files of the model: one of a type handleFile rejects, one the reader
\* fails on, an empty one, one of a header alone and one of a header and a
\* line
LoadFiles ==
    {[kind |-> "rejected", rows |-> <<>>],
     [kind |-> "unreadable", rows |-> <<>>],
     [kind |-> "blank", rows |-> <<>>],
     [kind |-> "text", rows |-> <<>>],
     [kind |-> "text",
      rows |-> <<[ds |-> "2020-03-01", country |-> "X", polygon_source |-> "FB",
                  polygon_id |-> "1", polygon_name |-> "A",
                  all_day_bing_tiles_visited_relative_change |-> "-0.3",
                  all_day_ratio_single_tile_users |-> "0.5",
                  baseline_name |-> "full_february", baseline_type |-> "DAY_OF_WEEK"]>>]}

\* parseMovementData returns or throws
ParseOutcomes == {"returns", "throws"}

\* The sequence without its element at position i
RemoveAt(seq, i) == [k \in 1..(Len(seq) - 1) |-> IF k < i THEN seq[k] ELSE seq[k + 1]]

\* The data of App that is not null: an array of records
Loaded(records) == [records |-> records]

\* useState(null), useState(false) of App and useState(null) of FileUpload;
\* no reader is reading and no timeout is set
InitLoad ==
    /\ data = Null
    /\ op = "mount"
    /\ args = [isLoading |-> FALSE, error |-> Null, reading |-> <<>>, timers |-> <<>>]
    /\ ret = Null
    /\ src = Null

\* !data of App: the FileUpload, with its input and its drop zone, is
\* rendered (an empty array is not a falsy value)
FileUploadShown == data = Null

\* handleFile(file): the error is cleared; a file of another type sets it,
\* any other file is given to a FileReader
HandleFile(handler, file) ==
    /\ op' = handler
    /\ IF file.kind = "rejected"
       THEN args' = [args EXCEPT !.error = [message |-> "Please upload a valid .txt or .tsv file."]]
       ELSE /\ Len(args.reading) + Len(args.timers) < MaxLoads
            /\ args' = [args EXCEPT !.error = Null, !.reading = Append(@, file)]
    /\ ret' = Null
    /\ UNCHANGED <<data, src>>

\* handleChange: a file chosen with the input, which is disabled while
\* isLoading
HandleChange ==
    /\ FileUploadShown
    /\ ~args.isLoading
    /\ \E file \in LoadFiles : HandleFile("handleChange", file)

\* handleDrop: a file dropped on the drop zone
HandleDrop ==
    /\ FileUploadShown
    /\ \E file \in LoadFiles : HandleFile("handleDrop", file)

\* reader.onload: a content that is not empty goes to onDataLoaded, that is
\* handleDataLoaded: setIsLoading(true) and setTimeout(..., 100)
ReaderOnLoad ==
    \E i \in 1..Len(args.reading) :
        /\ args.reading[i].kind # "unreadable"
        /\ op' = "onload"
        /\ args' = IF args.reading[i].kind = "blank"
                   THEN [args EXCEPT !.reading = RemoveAt(@, i)]
                   ELSE [args EXCEPT !.reading = RemoveAt(@, i),
                                     !.isLoading = TRUE,
                                     !.timers = Append(@, args.reading[i].rows)]
        /\ ret' = Null
        /\ UNCHANGED <<data, src>>

\* reader.onerror: setError, of a FileUpload that is still rendered
ReaderOnError ==
    \E i \in 1..Len(args.reading) :
        /\ args.reading[i].kind = "unreadable"
        /\ op' = "onerror"
        /\ args' = [args EXCEPT !.reading = RemoveAt(@, i),
                                !.error = IF FileUploadShown
                                          THEN [message |-> "Error reading file."]
                                          ELSE @]
        /\ ret' = Null
        /\ UNCHANGED <<data, src>>

\* TimeoutCallback with the catch block setting the data to null.
TimeoutCallback_CatchClearsData ==
    /\ Len(args.timers) > 0
    /\ \E outcome \in ParseOutcomes :
          IF outcome = "throws"
          THEN /\ op' = "catch"
               /\ data' = Null
               /\ args' = [args EXCEPT !.timers = Tail(@), !.isLoading = FALSE]
               /\ ret' = Null
               /\ UNCHANGED src
          ELSE \E parsedData \in {parseMovementData(Head(args.timers))} :
               /\ op' = "timeout"
               /\ data' = Loaded(parsedData)
               /\ args' = [args EXCEPT !.timers = Tail(@), !.isLoading = FALSE,
                                       !.error = Null]
               /\ ret' = Loaded(parsedData)
               /\ UNCHANGED src

\* TimeoutCallback with setIsLoading(false) in the try block, after setData.
TimeoutCallback_NoFinally ==
    /\ Len(args.timers) > 0
    /\ \E outcome \in ParseOutcomes :
          IF outcome = "throws"
          THEN /\ op' = "catch"
               /\ data' = data
               /\ args' = [args EXCEPT !.timers = Tail(@), !.isLoading = @]
               /\ ret' = Null
               /\ UNCHANGED src
          ELSE \E parsedData \in {parseMovementData(Head(args.timers))} :
               /\ op' = "timeout"
               /\ data' = Loaded(parsedData)
               /\ args' = [args EXCEPT !.timers = Tail(@), !.isLoading = FALSE,
                                       !.error = Null]
               /\ ret' = Loaded(parsedData)
               /\ UNCHANGED src

\* The callback of the earliest timeout: parseMovementData returns and the
\* records are set as data (the Dashboard replaces the FileUpload, whose
\* state is lost), or it throws and the data stays; isLoading is set to
\* false in both cases
TimeoutCallback ==
    /\ Len(args.timers) > 0
    /\ \E outcome \in ParseOutcomes :
          IF outcome = "throws"
          THEN /\ op' = "catch"
               /\ data' = data
               /\ args' = [args EXCEPT !.timers = Tail(@), !.isLoading = FALSE]
               /\ ret' = Null
               /\ UNCHANGED src
          ELSE \E parsedData \in {parseMovementData(Head(args.timers))} :
               /\ op' = "timeout"
               /\ data' = Loaded(parsedData)
               /\ args' = [args EXCEPT !.timers = Tail(@), !.isLoading = FALSE,
                                       !.error = Null]
               /\ ret' = Loaded(parsedData)
               /\ UNCHANGED src

\* onReset of the Dashboard, that is handleReset: setData(null)
OnReset ==
    /\ ~FileUploadShown
    /\ op' = "handleReset"
    /\ data' = Null
    /\ ret' = Null
    /\ UNCHANGED <<args, src>>

NextLoad ==
    \/ HandleChange
    \/ HandleDrop
    \/ ReaderOnLoad
    \/ ReaderOnError
    \/ TimeoutCallback
    \/ OnReset

SpecLoad == InitLoad /\ [][NextLoad]_vars

\* A timeout that is set fires
FairSpecLoad == SpecLoad /\ WF_vars(TimeoutCallback)

-----------------------------------------------------------------------------
(* What the claims speak of, read off the record collection directly *)

\* The positions of the records of country c, and of those dated ds
RowsOf(c) == {i \in 1..Len(data) : data[i].country = c}
RowsOn(c, ds) == {i \in RowsOf(c) : data[i].ds = ds}

MobilityChange(d) == d.all_day_bing_tiles_visited_relative_change
StayHomeRatio(d) == d.all_day_ratio_single_tile_users

\* The sum of v over the records at the positions I
TotalOver(I, v(_)) ==
    LET Add(sum, i) == IF i \in I THEN NumAdd(sum, v(data[i])) ELSE sum
    IN  FoldLeft(Add, Num(0), [i \in 1..Len(data) |-> i])

Aggregated == op = "calculateCountryAggregates"

-----------------------------------------------------------------------------
(* Claims about calculateCountryAggregates *)

\* C1: for a country with at least one record the matrix has exactly one row
\* per distinct region name of the country, and matrix.length, totalRegions
\* and the length of getRegionsByCountry all equal the number of those names.
C1_MatrixOneRowPerRegion ==
    Aggregated /\ RowsOf(args[1]) # {} =>
        LET names == {data[i].polygon_name : i \in RowsOf(args[1])}
        IN  /\ ret # Null
            /\ {ret.matrix[i].name : i \in 1..Len(ret.matrix)} = names
            /\ Len(ret.matrix) = Cardinality(names)
            /\ ret.totalRegions = Cardinality(names)
            /\ Len(getRegionsByCountry(data, args[1])) = Cardinality(names)

\* A country with three records in two regions has been aggregated.
C1_Witness ==
    /\ Aggregated
    /\ Cardinality(RowsOf(args[1])) = 3
    /\ ret # Null
    /\ Len(ret.matrix) = 2

\* C2: for a country with at least one record the trend has exactly one entry
\* per distinct date string of the country, and the entry's avgMobility and
\* avgStay are the field's sum over the country's rows of that date divided
\* by the number of those rows.
C2_TrendAveragesPerDate ==
    Aggregated /\ RowsOf(args[1]) # {} =>
        LET c == args[1]
            dates == {data[i].ds : i \in RowsOf(c)}
        IN  /\ ret # Null
            /\ {ret.trend[i].ds : i \in 1..Len(ret.trend)} = dates
            /\ Len(ret.trend) = Cardinality(dates)
            /\ \A i \in 1..Len(ret.trend) :
                   LET rows == RowsOn(c, ret.trend[i].ds)
                   IN  /\ ret.trend[i].avgMobility =
                              NumDiv(TotalOver(rows, MobilityChange), Cardinality(rows))
                       /\ ret.trend[i].avgStay =
                              NumDiv(TotalOver(rows, StayHomeRatio), Cardinality(rows))

\* A country with two regions has been aggregated, one of its dates reported
\* by both regions and another by one region only.
C2_Witness ==
    /\ Aggregated
    /\ ret # Null
    /\ ret.totalRegions = 2
    /\ \E d1, d2 \in Dates :
           /\ Cardinality(RowsOn(args[1], d1)) = 2
           /\ Cardinality(RowsOn(args[1], d2)) = 1

\* C3: for a country with at least one record the matrix's sum of
\* avgMobility * dataPoints, the trend's sum of avgMobility * (row count of
\* the date) and the total mobilityChange of the country's records are equal.
C3_GrandTotalsAgree ==
    Aggregated /\ RowsOf(args[1]) # {} =>
        LET c == args[1]
            MatrixShare(r) == NumMul(r.avgMobility, r.dataPoints)
            TrendShare(t) == NumMul(t.avgMobility, Cardinality(RowsOn(c, t.ds)))
            total == TotalOver(RowsOf(c), MobilityChange)
        IN  /\ ret # Null
            /\ SumOf(Map(MatrixShare, ret.matrix)) = total
            /\ SumOf(Map(TrendShare, ret.trend)) = total

\* A country whose records span two regions and two dates has been
\* aggregated, with averages that are not whole sums.
C3_Witness ==
    /\ Aggregated
    /\ ret # Null
    /\ Len(ret.matrix) = 2
    /\ Len(ret.trend) = 2
    /\ Cardinality(RowsOf(args[1])) = 3
    /\ \E i \in 1..Len(ret.matrix) : ret.matrix[i].dataPoints = 2

\* C9: calculateCountryAggregates returns null exactly when the country is
\* empty or no record has it; otherwise the aggregate has a non-empty trend
\* and a non-empty matrix.
C9_NullExactlyWithoutRecords ==
    Aggregated =>
        /\ ret = Null <=> (args[1] = "" \/ RowsOf(args[1]) = {})
        /\ ret # Null => Len(ret.trend) > 0 /\ Len(ret.matrix) > 0

\* A non-empty collection has been asked for a country none of its records has.
C9_Witness ==
    /\ Aggregated
    /\ Len(data) > 0
    /\ args[1] # ""
    /\ RowsOf(args[1]) = {}
    /\ ret = Null

-----------------------------------------------------------------------------
(* Claims about getNormalizedSeries, calculateStats, calculateRegionAsAggregate *)

\* C4: for a country C with at least one record, the trend of
\* calculateRegionAsAggregate(getNormalizedSeries(C, WHOLE_COUNTRY_OPTION), C)
\* has the dates of calculateCountryAggregates(data, C).trend in the same
\* order, with the same avgMobility and avgStay on every date.
C4_AverageSeriesKeepsTrend ==
    /\ op = "calculateRegionAsAggregate"
    /\ src.args[2] = WHOLE_COUNTRY_OPTION
    /\ args[2] = src.args[1]
    /\ RowsOf(src.args[1]) # {}
    => LET agg == calculateCountryAggregates(data, src.args[1])
       IN  /\ ret # Null
           /\ Len(ret.trend) = Len(agg.trend)
           /\ \A i \in 1..Len(agg.trend) :
                  /\ ret.trend[i].ds = agg.trend[i].ds
                  /\ ret.trend[i].avgMobility = agg.trend[i].avgMobility
                  /\ ret.trend[i].avgStay = agg.trend[i].avgStay

\* The whole-country series of a country with rows on three date strings, two
\* of them one instant, has been reshaped as an aggregate.
C4_Witness ==
    /\ op = "calculateRegionAsAggregate"
    /\ src.args = <<"X", WHOLE_COUNTRY_OPTION>>
    /\ args[2] = "X"
    /\ ret # Null
    /\ Len(ret.trend) = 3

\* C10: getNormalizedSeries(c, r) is the empty sequence when c or r is empty,
\* when r names a region and no record has country c and region r, and when r
\* is the whole-country sentinel and no record has country c; calculateStats
\* and calculateRegionAsAggregate return null on an empty series.
C10_AbsenceNotException ==
    /\ op = "getNormalizedSeries" =>
           LET c == args[1]
               r == args[2]
               matching == {i \in RowsOf(c) : data[i].polygon_name = r}
           IN  /\ c = "" \/ r = "" => ret = <<>>
               /\ r # WHOLE_COUNTRY_OPTION /\ matching = {} => ret = <<>>
               /\ r = WHOLE_COUNTRY_OPTION /\ RowsOf(c) = {} => ret = <<>>
    /\ op \in {"calculateStats", "calculateRegionAsAggregate"} =>
           (args[1] = <<>> => ret = Null)

\* An empty selector met records it could have named: the series asked for
\* country X and the empty region name, of which X has a record, came back
\* empty and its statistics came back null.
C10_Witness ==
    /\ op = "calculateStats"
    /\ src.args = <<"X", "">>
    /\ \E i \in RowsOf("X") : data[i].polygon_name = ""
    /\ args[1] = <<>>
    /\ ret = Null

-----------------------------------------------------------------------------
(* Claims about comparisonChartData and countryComparisonChartData *)

Merged == op \in {"comparisonChartData", "countryComparisonChartData"}

\* The date strings of a series or trend
DatesOf(series) == {series[i].ds : i \in 1..Len(series)}

SecondaryFields == {"secondary_mobility", "secondary_stay", "secondary_label"}

\* C5: merged with the comparison enabled, the table has exactly
\* |dates(a) \cup dates(b)| rows, every date of the primary series a has a row
\* with non-null primary mobility and stay, and every date of the secondary
\* series b has a row with secondary mobility and stay set.
C5_MergeCoversBothSeries ==
    Merged /\ args.compare =>
        /\ Len(ret) = Cardinality(DatesOf(args.primary) \cup DatesOf(args.secondary))
        /\ \A d \in DatesOf(args.primary) :
               \E i \in 1..Len(ret) :
                   /\ ret[i].ds = d
                   /\ ret[i].primary_mobility # Null
                   /\ ret[i].primary_stay # Null
        /\ \A d \in DatesOf(args.secondary) :
               \E i \in 1..Len(ret) :
                   /\ ret[i].ds = d
                   /\ {"secondary_mobility", "secondary_stay"} \subseteq DOMAIN ret[i]
                   /\ ret[i].secondary_mobility # Null
                   /\ ret[i].secondary_stay # Null

\* A primary series of one point and a secondary series of two points, one
\* on the primary's date and one on a date of its own, have been merged with
\* the comparison enabled: two rows from three points.
C5_Witness ==
    /\ Merged
    /\ args.compare
    /\ Len(args.primary) = 1
    /\ Len(args.secondary) = 2
    /\ DatesOf(args.primary) \cap DatesOf(args.secondary) # {}
    /\ DatesOf(args.secondary) \ DatesOf(args.primary) # {}
    /\ Len(ret) = 2

\* C6: a date that occurs only in the secondary series has a row, whose
\* primary_mobility and primary_stay are present and null; a date that occurs
\* only in the primary series has a row with no secondary field set.
C6_OneSidedDates ==
    Merged =>
        /\ \A d \in DatesOf(args.secondary) \ DatesOf(args.primary) :
               /\ \E i \in 1..Len(ret) : ret[i].ds = d
               /\ \A i \in 1..Len(ret) :
                      ret[i].ds = d =>
                          /\ {"primary_mobility", "primary_stay"} \subseteq DOMAIN ret[i]
                          /\ ret[i].primary_mobility = Null
                          /\ ret[i].primary_stay = Null
        /\ \A d \in DatesOf(args.primary) \ DatesOf(args.secondary) :
               /\ \E i \in 1..Len(ret) : ret[i].ds = d
               /\ \A i \in 1..Len(ret) :
                      ret[i].ds = d => DOMAIN ret[i] \cap SecondaryFields = {}

\* A merge of each kind has met a date of the secondary side alone and a date
\* of the primary side alone.
C6_Witness ==
    /\ op = "comparisonChartData"
    /\ DatesOf(args.secondary) \ DatesOf(args.primary) # {}
    /\ DatesOf(args.primary) \ DatesOf(args.secondary) # {}

C6_WitnessCountry ==
    /\ op = "countryComparisonChartData"
    /\ DatesOf(args.secondary) \ DatesOf(args.primary) # {}
    /\ DatesOf(args.primary) \ DatesOf(args.secondary) # {}

\* C7: the rows of both merges are in ascending date order.
C7_MergedRowsAscending ==
    Merged =>
        \A i, j \in 1..Len(ret) : i < j => DateTime(ret[i].ds) <= DateTime(ret[j].ds)

\* The only date of the primary series is later than a date the secondary
\* series brings in, so the Map holds the later date first.
C7_Witness ==
    /\ op = "comparisonChartData"
    /\ args.compare
    /\ DatesOf(args.primary) = {"2020-03-02"}
    /\ "2020-03-01" \in DatesOf(args.secondary)
    /\ Len(ret) >= 2

-----------------------------------------------------------------------------
(* Claims about sortedMatrix *)

\* The matrix a render sorts: the secondary aggregate's on the secondary tab
\* of an active comparison that has one, the primary aggregate's otherwise
ActiveMatrix ==
    IF args.matrixTab = "secondary" /\ args.isCountryCompareMode
       /\ args.countryOverviewData2 # Null
    THEN args.countryOverviewData2.matrix
    ELSE IF args.countryOverviewData1 = Null THEN <<>>
    ELSE args.countryOverviewData1.matrix

\* No two rows of m have the same value in column key
NoDuplicateKey(m, key) ==
    \A i, j \in 1..Len(m) : i # j => m[i][key] # m[j][key]

\* C8: for a matrix of which no two rows have the same value of the sort key,
\* the matrix sorted ascending, reversed, is the matrix sorted descending.
C8_AscendingReversedIsDescending ==
    /\ op = "sortedMatrix"
    /\ args.sortConfig.direction = "asc"
    /\ NoDuplicateKey(ActiveMatrix, args.sortConfig.key)
    => Reverse(ret) = sortedMatrix(args.countryOverviewData1, args.countryOverviewData2,
                                   [key |-> args.sortConfig.key, direction |-> "desc"],
                                   args.matrixTab, args.isCountryCompareMode)

\* A matrix of three rows with three different values of the sort key, not in
\* ascending order of it as aggregated, has been sorted ascending.
C8_Witness ==
    /\ op = "sortedMatrix"
    /\ args.sortConfig.direction = "asc"
    /\ Len(ActiveMatrix) = 3
    /\ NoDuplicateKey(ActiveMatrix, args.sortConfig.key)
    /\ ret # ActiveMatrix

\* With two rows equal in the sort key the two orders are not each other's
\* reverse: the rows keep their order in both.
C8_TiesKeepOrder ==
    /\ op = "sortedMatrix"
    /\ args.sortConfig.direction = "asc"
    /\ Len(ActiveMatrix) = 2
    /\ ~NoDuplicateKey(ActiveMatrix, args.sortConfig.key)
    /\ Reverse(ret) # sortedMatrix(args.countryOverviewData1, args.countryOverviewData2,
                                   [key |-> args.sortConfig.key, direction |-> "desc"],
                                   args.matrixTab, args.isCountryCompareMode)

-----------------------------------------------------------------------------
(* Claims about the series of one region *)

\* The point getNormalizedSeries owes to the record at position i
PointOf(i) ==
    [ds |-> data[i].ds,
     mobility |-> MobilityChange(data[i]),
     stay |-> StayHomeRatio(data[i]),
     baseline_type |-> data[i].baseline_type]

\* The positions of the records of country c and region name r
RowsIn(c, r) == {i \in RowsOf(c) : data[i].polygon_name = r}

\* C11: for a non-empty country c and a non-empty region name r other than
\* the sentinel, getNormalizedSeries(c, r) has exactly one point per record
\* of country c and region r, same-date duplicates included, each with the
\* record's date, mobilityChange, stayHomeRatio and baseline_type.
C11_OnePointPerRecord ==
    /\ op = "getNormalizedSeries"
    /\ args[1] # ""
    /\ args[2] \notin {"", WHOLE_COUNTRY_OPTION}
    => LET rows == RowsIn(args[1], args[2])
       IN  /\ Len(ret) = Cardinality(rows)
           /\ \A i \in rows :
                  Cardinality({j \in 1..Len(ret) : ret[j] = PointOf(i)})
                      = Cardinality({k \in rows : PointOf(k) = PointOf(i)})

\* The series of a region with two rows of one date, and a third row of
\* another region in the collection, has been computed.
C11_Witness ==
    /\ op = "getNormalizedSeries"
    /\ args = <<"X", "A">>
    /\ Len(data) = 3
    /\ Cardinality(RowsIn("X", "A")) = 2
    /\ \E i, j \in RowsIn("X", "A") : i # j /\ data[i].ds = data[j].ds
    /\ Len(ret) = 2

\* C12: every series getNormalizedSeries returns is in ascending order of
\* date, and calculateStats of a non-empty one has the earliest date of the
\* series as start and the latest as end.
C12_SeriesAscendingStartEnd ==
    /\ op = "getNormalizedSeries" =>
           \A i, j \in 1..Len(ret) : i < j => DateTime(ret[i].ds) <= DateTime(ret[j].ds)
    /\ op = "calculateStats" /\ args[1] # <<>> =>
           /\ ret # Null
           /\ \A i \in 1..Len(args[1]) :
                  /\ DateTime(ret.start) <= DateTime(args[1][i].ds)
                  /\ DateTime(ret.end) >= DateTime(args[1][i].ds)

\* The statistics of a region's series have been computed, the region's rows
\* standing in the collection with the later date first.
C12_Witness ==
    /\ op = "calculateStats"
    /\ src.args = <<"X", "A">>
    /\ \E i, j \in RowsIn("X", "A") : i < j /\ DateTime(data[i].ds) > DateTime(data[j].ds)
    /\ ret # Null
    /\ ret.start = "2020-03-01"
    /\ DateTime(ret.end) > DateTime(ret.start)

-----------------------------------------------------------------------------
(* Claims about the rows of the matrix *)

\* The largest and the smallest of a non-empty set of numbers
Greatest(S) == CHOOSE x \in S : \A y \in S : ~NumLess(x, y)
Least(S) == CHOOSE x \in S : \A y \in S : ~NumLess(y, x)

\* C13: every row of the matrix has as dataPoints the number of records of
\* the country with the row's region name, duplicates of a (date, region)
\* each counted, and as avgMobility and avgStay the field's sum over those
\* records divided by dataPoints.
C13_RowAveragesPerRegion ==
    Aggregated /\ ret # Null =>
        \A i \in 1..Len(ret.matrix) :
            LET rows == RowsIn(args[1], ret.matrix[i].name)
            IN  /\ ret.matrix[i].dataPoints = Cardinality(rows)
                /\ ret.matrix[i].avgMobility =
                       NumDiv(TotalOver(rows, MobilityChange), Cardinality(rows))
                /\ ret.matrix[i].avgStay =
                       NumDiv(TotalOver(rows, StayHomeRatio), Cardinality(rows))

\* A region with two rows of one date and different measurements, next to a
\* region with one row, has been aggregated.
C13_Witness ==
    /\ Aggregated
    /\ ret # Null
    /\ Len(ret.matrix) = 2
    /\ \E i, j \in RowsOf(args[1]) :
           /\ i # j
           /\ data[i].ds = data[j].ds
           /\ data[i].polygon_name = data[j].polygon_name
           /\ MobilityChange(data[i]) # MobilityChange(data[j])
    /\ \E i \in 1..Len(ret.matrix) : ret.matrix[i].dataPoints = 2

\* C14: every row of the matrix has as maxStay the greatest stayHomeRatio and
\* as minMobility the least mobilityChange of the records of the country with
\* the row's region name, and neither seed of the running extremes (-1, 999)
\* is in the result.
C14_RowExtremesPerRegion ==
    Aggregated /\ ret # Null =>
        \A i \in 1..Len(ret.matrix) :
            LET rows == RowsIn(args[1], ret.matrix[i].name)
            IN  /\ ret.matrix[i].maxStay = Greatest({StayHomeRatio(data[k]) : k \in rows})
                /\ ret.matrix[i].minMobility = Least({MobilityChange(data[k]) : k \in rows})
                /\ ret.matrix[i].maxStay # Num(-1)
                /\ ret.matrix[i].minMobility # Num(999)

-----------------------------------------------------------------------------
(* Claims about calculateRegionAsAggregate and the sentinel *)

\* The sum of the field v of the first n points of the series s
RECURSIVE SeriesSum(_, _, _)
SeriesSum(s, n, v) == IF n = 0 THEN Num(0) ELSE NumAdd(s[n][v], SeriesSum(s, n - 1, v))

\* C15: for a non-empty series s, calculateRegionAsAggregate(s, name) has
\* totalRegions 1 and a matrix of one row with that name, dataPoints the
\* length of s, avgMobility and avgStay the means of s, minMobility the least
\* mobility and maxStay the greatest stay of s; its trend has the length,
\* dates and order of s with avgMobility = mobility and avgStay = stay.
C15_RegionAsAggregateShape ==
    op = "calculateRegionAsAggregate" /\ args[1] # <<>> =>
        LET s == args[1]
            n == Len(s)
        IN  /\ ret # Null
            /\ ret.totalRegions = 1
            /\ Len(ret.matrix) = 1
            /\ ret.matrix[1].name = args[2]
            /\ ret.matrix[1].dataPoints = n
            /\ NumMul(ret.matrix[1].avgMobility, n) = SeriesSum(s, n, "mobility")
            /\ NumMul(ret.matrix[1].avgStay, n) = SeriesSum(s, n, "stay")
            /\ ret.matrix[1].minMobility = Least({s[i].mobility : i \in 1..n})
            /\ ret.matrix[1].maxStay = Greatest({s[i].stay : i \in 1..n})
            /\ Len(ret.trend) = n
            /\ \A i \in 1..n :
                   /\ ret.trend[i].ds = s[i].ds
                   /\ ret.trend[i].avgMobility = s[i].mobility
                   /\ ret.trend[i].avgStay = s[i].stay

\* The series of a region with three points, not all of one measurement, has
\* been reshaped under the region's name.
C15_Witness ==
    /\ op = "calculateRegionAsAggregate"
    /\ Len(args[1]) = 3
    /\ args[2] = "A"
    /\ \E i, j \in 1..3 : args[1][i].mobility # args[1][j].mobility
    /\ ret # Null
    /\ ret.matrix[1].dataPoints = 3

\* C16: for every region name r that a record of country c has,
\* getNormalizedSeries(c, r) is the series of the records of c named r, not
\* the average over the country.
C16_SentinelNeverARegion ==
    /\ op = "getNormalizedSeries"
    /\ args[1] # ""
    /\ args[2] # ""
    /\ RowsIn(args[1], args[2]) # {}
    => LET rows == RowsIn(args[1], args[2])
       IN  /\ Len(ret) = Cardinality(rows)
           /\ \A i \in rows :
                  Cardinality({j \in 1..Len(ret) : ret[j] = PointOf(i)})
                      = Cardinality({k \in rows : PointOf(k) = PointOf(i)})

-----------------------------------------------------------------------------
(* Claims about the order of the matrix *)

\* The position of the first record of country c with region name r
FirstRowIn(c, r) == CHOOSE i \in RowsIn(c, r) : \A k \in RowsIn(c, r) : i <= k

\* C20: the matrix of calculateCountryAggregates lists the regions in the
\* order in which each region name first appears among the records of the
\* country, not sorted by any field.
C20_MatrixInFirstSeenOrder ==
    Aggregated /\ ret # Null =>
        \A i, j \in 1..Len(ret.matrix) :
            i < j => FirstRowIn(args[1], ret.matrix[i].name)
                         < FirstRowIn(args[1], ret.matrix[j].name)

\* A country whose first row is of region B and whose later rows are of
\* region A, then B again, has been aggregated: B is the first row of the
\* matrix, against the order of the names and of every column.
C20_Witness ==
    /\ Aggregated
    /\ ret # Null
    /\ Len(data) = 3
    /\ RowsOf(args[1]) = {1, 2, 3}
    /\ data[1].polygon_name = "B"
    /\ data[2].polygon_name = "A"
    /\ data[3].polygon_name = "B"
    /\ Len(ret.matrix) = 2
    /\ ret.matrix[1].name = "B"
    /\ NumLess(ret.matrix[2].avgMobility, ret.matrix[1].avgMobility)

-----------------------------------------------------------------------------
(* Claims about parseMovementData *)

\* The positions of the rows that have a date and a country
Complete(rows) ==
    {i \in 1..Len(rows) : CellOr(rows[i], "ds") # "" /\ CellOr(rows[i], "country") # ""}

\* C19: every record parseMovementData returns has a non-empty date and a
\* non-empty country; the rows without a date or without a country are
\* dropped and no other row is: the records are the rows that have both, in
\* their order.
C19_ParsedRowsHaveDateAndCountry ==
    op = "parseMovementData" =>
        LET rows == args[1]
            kept == Complete(rows)
            Rank(i) == Cardinality({k \in kept : k <= i})
        IN  /\ \A j \in 1..Len(ret) : ret[j].ds # "" /\ ret[j].country # ""
            /\ Len(ret) = Cardinality(kept)
            /\ \A i \in kept :
                   /\ ret[Rank(i)].ds = rows[i].ds
                   /\ ret[Rank(i)].country = rows[i].country
                   /\ ret[Rank(i)].polygon_name = rows[i].polygon_name

\* A file of three lines has been parsed: one without a date, one without a
\* country, and one with both, which alone is kept.
C19_Witness ==
    /\ op = "parseMovementData"
    /\ Len(args[1]) = 3
    /\ \E i, j, k \in 1..3 :
           /\ CellOr(args[1][i], "ds") = "" /\ CellOr(args[1][i], "country") # ""
           /\ CellOr(args[1][j], "ds") # "" /\ CellOr(args[1][j], "country") = ""
           /\ k \in Complete(args[1])
    /\ Len(ret) = 1

-----------------------------------------------------------------------------
(* Claims about the mounted Dashboard *)

\* C17: no core operation changes its inputs: whatever the renders compute
\* (the aggregates, the series, the statistics, the merges, the sorted
\* matrix), the record collection keeps its content and order, and an
\* aggregate keeps its matrix, row order included, for as long as the
\* selectors it is computed from stay the same, the sorts of its matrix
\* notwithstanding.
C17_InputsUnchanged ==
    [][/\ data' = data
       /\ ~Stale(args, args', DepsCountryOverviewData1)
              => ret'.countryOverviewData1 = ret.countryOverviewData1
       /\ ~Stale(args, args', DepsCountryOverviewData2)
              => ret'.countryOverviewData2 = ret.countryOverviewData2]_vars

\* The matrix of an aggregate of two regions has been sorted into the
\* reverse of its order, the series of a region whose rows stand later day
\* first in the collection having been computed by the same render or an
\* earlier one.
C17_Witness ==
    /\ op = "render"
    /\ args.sortConfig # InitialSortConfig
    /\ args.isCountryCompareMode
    /\ args.countryCompareType = "region"
    /\ ret.countryOverviewData1 # Null
    /\ ret.countryOverviewData2 # Null
    /\ Len(ret.countryOverviewData2.trend) = 2
    /\ \E i, j \in RowsIn(args.countryViewCountry, args.countryViewRegion) :
           i < j /\ DateTime(data[i].ds) > DateTime(data[j].ds)
    /\ Len(ret.countryOverviewData1.matrix) = 2
    /\ ret.sortedMatrix = Reverse(ret.countryOverviewData1.matrix)

\* C18: whatever the selector changes so far, every derived value is what
\* computing it afresh from the record collection and the present selectors
\* gives: the two series, the two statistics, the two merged tables, the two
\* aggregates and the sorted matrix.
C18_NoStaleMemo ==
    LET p == getNormalizedSeries(data, args.selectedCountry, args.selectedRegion)
        s == IF args.isCompareMode
             THEN getNormalizedSeries(data, args.selectedCountry2, args.selectedRegion2)
             ELSE <<>>
        o1 == calculateCountryAggregates(data, args.countryViewCountry)
        o2 == countryOverviewData2(data, args.isCountryCompareMode, args.countryCompareType, args.countryViewCountry, args.countryViewCountry2, args.countryViewRegion)
    IN  /\ ret.primaryData = p
        /\ ret.secondaryData = s
        /\ ret.stats = calculateStats(p)
        /\ ret.stats2 = IF args.isCompareMode THEN calculateStats(s) ELSE Null
        /\ ret.comparisonChartData =
               comparisonChartData(p, s, args.isCompareMode, args.selectedRegion, args.selectedCountry, args.selectedRegion2, args.selectedCountry2)
        /\ ret.countryOverviewData1 = o1
        /\ ret.countryOverviewData2 = o2
        /\ ret.countryComparisonChartData =
               countryComparisonChartData(o1, o2, args.isCountryCompareMode, args.countryViewCountry, args.countryViewCountry2, args.countryCompareType, args.countryViewRegion)
        /\ ret.sortedMatrix =
               sortedMatrix(o1, o2, args.sortConfig, args.matrixTab, args.isCountryCompareMode)

\* The comparison was switched on, both countries and both regions were
\* chosen, and the comparison was switched off again: the secondary series
\* is empty again while its selectors still name a region with rows.
C18_Witness ==
    /\ op = "render"
    /\ args.viewMode = "region"
    /\ ~args.isCompareMode
    /\ args.selectedCountry # args.selectedCountry2
    /\ args.selectedRegion \notin {"", WHOLE_COUNTRY_OPTION}
    /\ args.selectedRegion2 \notin {"", WHOLE_COUNTRY_OPTION}
    /\ RowsIn(args.selectedCountry2, args.selectedRegion2) # {}
    /\ ret.primaryData # <<>>
    /\ ret.secondaryData = <<>>

-----------------------------------------------------------------------------
(* C21: a date several points of a series share has one merged row, holding
   the values of the last of those points *)

\* The rows of a merged table with the date ds, and the last point of a
\* series with that date
RowsWith(table, ds) == {i \in 1..Len(table) : table[i].ds = ds}
LastWith(series, ds) ==
    series[CHOOSE i \in RowsWith(series, ds) : \A k \in RowsWith(series, ds) : k <= i]

\* The two measurements of a point: of a region series or of a trend
PointMobility(d) == IF "mobility" \in DOMAIN d THEN d.mobility ELSE d.avgMobility
PointStay(d) == IF "stay" \in DOMAIN d THEN d.stay ELSE d.avgStay

\* C21: for every date of the primary series the merged table has exactly one
\* row, with the primary values of the last primary point of that date; for
\* every date of a merged secondary series it has exactly one row, with the
\* secondary values of the last secondary point of that date.
C21_LastPointPerDateWins ==
    Merged =>
        /\ \A ds \in DatesOf(args.primary) :
              /\ Cardinality(RowsWith(ret, ds)) = 1
              /\ \A i \in RowsWith(ret, ds) :
                    /\ ret[i].primary_mobility = PointMobility(LastWith(args.primary, ds))
                    /\ ret[i].primary_stay = PointStay(LastWith(args.primary, ds))
        /\ args.compare =>
              \A ds \in DatesOf(args.secondary) :
                /\ Cardinality(RowsWith(ret, ds)) = 1
                /\ \A i \in RowsWith(ret, ds) :
                      /\ ret[i].secondary_mobility = PointMobility(LastWith(args.secondary, ds))
                      /\ ret[i].secondary_stay = PointStay(LastWith(args.secondary, ds))

\* A region merge whose two series both have two points of one date with
\* different measurements.
C21_Witness ==
    /\ op = "comparisonChartData"
    /\ args.compare
    /\ \E i, k \in 1..Len(args.primary) :
          i < k /\ args.primary[i].ds = args.primary[k].ds
                /\ args.primary[i].mobility # args.primary[k].mobility
    /\ \E i, k \in 1..Len(args.secondary) :
          i < k /\ args.secondary[i].ds = args.secondary[k].ds
                /\ args.secondary[i].stay # args.secondary[k].stay

\* A country merge whose secondary trend, a region's, has two points of one date
C21_WitnessCountry ==
    /\ op = "countryComparisonChartData"
    /\ args.compare
    /\ \E i, k \in 1..Len(args.secondary) :
          i < k /\ args.secondary[i].ds = args.secondary[k].ds
                /\ args.secondary[i].avgStay # args.secondary[k].avgStay

-----------------------------------------------------------------------------
(* C22: the sorted matrix is the active matrix reordered by the sort key, rows
   equal in the key in the order of the aggregate *)

\* The one-to-one maps of the positions of a matrix onto themselves
Reorderings(n) == {p \in [1..n -> 1..n] : \A i, j \in 1..n : i # j => p[i] # p[j]}

\* Row a may stand before row b under the sort configuration
InOrder(sortConfig, a, b) ==
    IF sortConfig.direction = "asc" THEN ~KeyLess(sortConfig.key, b, a)
    ELSE ~KeyLess(sortConfig.key, a, b)

\* Rows a and b have the same value of the sort key
Tie(key, a, b) == ~KeyLess(key, a, b) /\ ~KeyLess(key, b, a)

\* C22: the sorted matrix holds the rows of the active matrix, each once,
\* ascending in the sort key for 'asc' and descending for 'desc', and of two
\* rows equal in the key the one earlier in the active matrix stands first,
\* in either direction.
C22_SortedIsStablePermutation ==
    op = "sortedMatrix" =>
        /\ Len(ret) = Len(ActiveMatrix)
        /\ \E p \in Reorderings(Len(ret)) :
              /\ \A i \in 1..Len(ret) : ret[i] = ActiveMatrix[p[i]]
              /\ \A i, j \in 1..Len(ret) :
                    i < j => /\ InOrder(args.sortConfig, ret[i], ret[j])
                             /\ Tie(args.sortConfig.key, ret[i], ret[j]) => p[i] < p[j]

\* A matrix of three rows, two of them equal in the sort key, sorted
\* descending into another order than the aggregate's.
C22_Witness ==
    /\ op = "sortedMatrix"
    /\ args.sortConfig.direction = "desc"
    /\ Len(ActiveMatrix) = 3
    /\ ~NoDuplicateKey(ActiveMatrix, args.sortConfig.key)
    /\ ret # ActiveMatrix

-----------------------------------------------------------------------------
(* C23: a region shown as an aggregate has the figures of its row in the
   matrix of its country *)

\* The row named r in a matrix
RowNamed(matrix, r) == matrix[CHOOSE i \in 1..Len(matrix) : matrix[i].name = r]

\* The single matrix row of the region r of country c shown as an aggregate
RegionAsRow(c, r) ==
    calculateRegionAsAggregate(getNormalizedSeries(data, c, r), r).matrix[1]

\* The figures two matrix rows are compared in
RowFigures == {"avgMobility", "avgStay", "maxStay", "minMobility", "dataPoints"}

\* C23: for every region of the aggregated country, other than one named as
\* the sentinel, the row of calculateRegionAsAggregate over the region's
\* series has the same averages, extremes and dataPoints as the region's row
\* in the matrix of calculateCountryAggregates.
C23_RegionRowAgreesWithCountryRow ==
    Aggregated /\ ret # Null =>
        \A r \in {data[i].polygon_name : i \in RowsOf(args[1])} \ {WHOLE_COUNTRY_OPTION} :
            \A f \in RowFigures : RegionAsRow(args[1], r)[f] = RowNamed(ret.matrix, r)[f]

-----------------------------------------------------------------------------
(* C24: the aggregate of a country and the order of the records *)

\* The collection with its records in the order p
Permuted(p) == [i \in 1..Len(data) |-> data[p[i]]]

\* The entries of a sequence, as a set
Entries(seq) == {seq[i] : i \in 1..Len(seq)}

\* Two records of country c have different date strings of the same instant
SameInstantDates(c) ==
    \E i, k \in RowsOf(c) :
        data[i].ds # data[k].ds /\ DateTime(data[i].ds) = DateTime(data[k].ds)

-----------------------------------------------------------------------------
(* C25, C26: the region selectors after the effects *)

\* The options of the primary region select for the selectors sel
PrimaryOptions(sel) == <<WHOLE_COUNTRY_OPTION>> \o getRegionsByCountry(data, sel.selectedCountry)

\* The last render was the effects' own
AfterEffectsRan == src # Null

\* C25: once the effects have nothing left to set, selectedRegion is one of
\* the options of the selected country, the sentinel followed by the
\* country's regions; and when the effects found a region that is not among
\* them, selectedRegion is the sentinel after they ran.
C25_SelectedRegionIsAnOption ==
    /\ Settled => Includes(PrimaryOptions(args), args.selectedRegion)
    /\ AfterEffectsRan /\ ~Includes(PrimaryOptions(src), src.selectedRegion)
           => args.selectedRegion = WHOLE_COUNTRY_OPTION

\* The effects found a region of the country selected before, which the
\* country selected now does not have, and have run.
C25_Witness ==
    /\ AfterEffectsRan
    /\ Settled
    /\ src.selectedRegion \in Regions
    /\ ~Includes(PrimaryOptions(src), src.selectedRegion)
    /\ src.selectedCountry = args.selectedCountry
    /\ Len(PrimaryOptions(args)) > 1
    /\ args.selectedRegion = WHOLE_COUNTRY_OPTION

\* The regions the overview offers for the selectors sel
OverviewRegions(sel) == getRegionsByCountry(data, sel.countryViewCountry)

\* C26: once the effects have nothing left to set, with compare type 'region'
\* and a country of the overview that has a region, countryViewRegion is one
\* of the regions of countryViewCountry.
C26_OverviewRegionIsOfCountry ==
    /\ Settled
    /\ args.countryCompareType = "region"
    /\ Len(OverviewRegions(args)) > 0
    => Includes(OverviewRegions(args), args.countryViewRegion)

\* In compare type 'region' the effects found a region selected under the
\* country shown before, which the country shown now does not have, and
\* have selected a region of that country.
C26_Witness ==
    /\ AfterEffectsRan
    /\ Settled
    /\ args.countryCompareType = "region"
    /\ src.countryCompareType = "region"
    /\ src.countryViewRegion \in Regions
    /\ src.countryViewCountry = args.countryViewCountry
    /\ ~Includes(OverviewRegions(src), src.countryViewRegion)
    /\ Includes(OverviewRegions(args), args.countryViewRegion)

-----------------------------------------------------------------------------
(* C27: the sort configuration under the header clicks *)

\* C27: a click on a column header leaves the sort key at the column clicked
\* and the direction at 'desc' exactly when the configuration before the
\* click had that column with direction 'asc', at 'asc' in every other case.
C27_HandleSortAlternates ==
    [][op = "sortedMatrix" /\ op' = "sortedMatrix" =>
          /\ args'.sortConfig.key \in SortKeys
          /\ args'.sortConfig.direction =
                 IF args.sortConfig.key = args'.sortConfig.key
                    /\ args.sortConfig.direction = "asc"
                 THEN "desc" ELSE "asc"]_vars

\* Another column than the one sorted at first has been clicked twice.
C27_Witness ==
    /\ op = "sortedMatrix"
    /\ args.sortConfig.key # InitialSortConfig.key
    /\ args.sortConfig.direction = "desc"

-----------------------------------------------------------------------------
(* C28, C29, C30: the loads of App *)

\* C28: at most one deferred parse is pending at any time, and isLoading is
\* true whenever one is pending.
C28_OneLoadAtATime ==
    /\ Len(args.timers) <= 1
    /\ Len(args.timers) > 0 => args.isLoading

\* The callback of a timeout has just run, with either outcome
LoadEnded == op \in {"timeout", "catch"}

\* C29: whenever a deferred parse is pending, a callback runs in the end and
\* leaves isLoading false, whether parseMovementData returned or threw.
C29_EveryLoadEnds ==
    /\ [](LoadEnded => ~args.isLoading)
    /\ (Len(args.timers) > 0) ~> (LoadEnded /\ ~args.isLoading)

\* parseMovementData has thrown in the callback of the only load, and
\* isLoading is false.
C29_Witness ==
    /\ op = "catch"
    /\ Len(args.timers) = 0
    /\ ~args.isLoading

\* The stored data is the same after a step as before it
DataKept == data' = data

\* C30: the callback in which parseMovementData throws leaves the stored
\* data as it was; the data changes only in a callback whose parse returned,
\* to the records parsed, and in handleReset, to null.
C30_FailedLoadKeepsData ==
    [][/\ op' = "catch" => DataKept
       /\ ~DataKept =>
             \/ op' = "timeout" /\ data' # Null /\ data' = ret'
             \/ op' = "handleReset" /\ data' = Null]_vars

\* parseMovementData has thrown in the callback of a load, with the records
\* of another load stored.
C30_Witness ==
    /\ op = "catch"
    /\ data # Null
    /\ Len(data.records) = 1

====
